---------------------------- MODULE Spec2Model ----------------------------
(***************************************************************************)
(* Exercise-analysis subsystem of the gym video pipeline.                  *)
(*                                                                         *)
(*   RepCounter   (services/exercise/src/exercise/rep_counter.py)          *)
(*   FormAnalyzer (services/exercise/src/exercise/form_analyzer.py)        *)
(*   smooth_signal (services/exercise/src/exercise/keypoint_utils.py)      *)
(*                                                                         *)
(* Angles are whole degrees.  The median of an even number of samples is   *)
(* the mean of the two middle ones and may be a half degree, so the        *)
(* smoothed value is carried doubled (smooth_signal2 = 2 * smooth_signal)  *)
(* and compared with the doubled thresholds.  The monotonic clock is an    *)
(* integer number of clock ticks; one tick is one second except in the     *)
(* 60 Hz scenario, which says so.                                          *)
(***************************************************************************)
EXTENDS Integers, Sequences, FiniteSets, TLC

VARIABLES
    clock,        \* latest value returned by time.monotonic()
    tracks,       \* RepCounter._tracks : track_id -> TrackState (a dict)
    next_set_id,  \* the next fresh uuid4 of TrackState.set_id
    ret,          \* the last RepCounter call and what it returned
    down_seen,    \* per track: some update computed in_down (observer)
    s1,           \* progress of the scripted feed of scenario S1
    ticks_per_s,  \* clock ticks per second, fixed by the initial state
    states,       \* FormAnalyzer._states : track_id -> alert_key -> AlertState
    chk,          \* the last FormAnalyzer.check call and what it returned
    obs,          \* per track and alert_key: what the caller has seen (observer)
    s5,           \* progress of the scripted feed of scenario S5
    pc,           \* ExercisePipeline.run: where the task stands
    batch,        \* ids of the messages of the batch read last that the
                  \* loop has not left behind; an id is the place in the batch
    acked,        \* ids of the messages of the batch acknowledged (XACK)
    loc,          \* locals of _process for the message in hand
    histories,    \* HeuristicClassifier._histories : track_id -> length
    track_exercise,     \* ExercisePipeline._track_exercise (a dict)
    frame_count,        \* ExercisePipeline._frame_count
    track_session_ids,  \* ExercisePipeline._track_session_ids (a dict)
    track_db_ids,       \* ExercisePipeline._track_db_ids (a dict)
    track_set_ids,      \* ExercisePipeline._track_set_ids (a dict)
    rows,         \* committed rows of the four tables
    tx,           \* rows added in the open database session, not committed
    attempts,     \* RepEvent rows _persist_rep_event was called for (observer)
    rep_counted,  \* entries of the stream rep_counted
    form_alerts,  \* entries of the stream form_alerts
    redis_open,   \* the stream client has not been closed
    inflight,     \* what the task awaited when it was cancelled (observer)
    fn,           \* the last call of a pure function and what it returned
    server,       \* the Redis server: per camera the input stream and its group
    workers,      \* per camera: the task of ExercisePipeline.run in main.run
    main,         \* main.run: where it stands and how often the service started
    replicas,     \* per consumer name: the ExercisePipeline of one process
    store,        \* what the processes share: the database, the streams
    handler,      \* FormAlertHandler of the guidance service
    reader        \* CameraReader.run of the ingestion service

rep_vars == <<tracks, next_set_id, ret, down_seen, s1>>
form_vars == <<states, chk, obs, s5>>
ctl_vars == <<pc, batch, acked, loc>>
cls_vars == <<histories, track_exercise, frame_count>>
ids_vars == <<track_session_ids, track_db_ids, track_set_ids>>
db_vars == <<rows, tx, attempts>>
bus_vars == <<rep_counted, form_alerts, redis_open, inflight>>
pipe_vars == <<ctl_vars, cls_vars, ids_vars, db_vars, bus_vars>>
svc_vars == <<fn, server, workers, main>>
more_vars == <<replicas, store, handler, reader>>
vars == <<clock, ticks_per_s, rep_vars, form_vars, pipe_vars, svc_vars, more_vars>>

(***************************************************************************)
(* Bounds of the model.                                                    *)
(***************************************************************************)
MaxClock == 4
MaxReps == 2
MaxCycles == 5
set_idle_timeout_s == 2
MaxFormClock == 20
MaxConsec == 3
MaxFrames == 8
read_batch == 2
MaxValues == 6
MaxKeypoints == 3
MaxQuiet == 4
MaxStream == 2
MaxStarts == 2
MaxSamples == 3
MaxSlides == 2
MaxFailures == 6
MaxCalls == 8
rate_limit_seconds == 2
MaxMonotonic == 5
MaxAlerts == 4
MaxDeliveries == 38
MaxSeen == 8

(***************************************************************************)
(* Program constants.                                                      *)
(***************************************************************************)
ANGLE_HISTORY == 7
PHASE_LOCK == 3
SmoothWindow == 5
up_angle == 160
down_angle == 100
NoAngle == -1
DEBOUNCE_FRAMES == 3
COOLDOWN_SECONDS == 10

Tracks == {1}
Angles == {95, 158, 165}
CoarseAngles == {95, 165}
TimestampInputs == {0, 1}

NoEvent == [kind |-> "none"]

(***************************************************************************)
(* keypoint_utils.smooth_signal, doubled.                                  *)
(***************************************************************************)
LastNOrAll(values, n) == values
LastN(values, n) ==
    IF Len(values) <= n THEN values
    ELSE SubSeq(values, Len(values) - n + 1, Len(values))

\* the k-th smallest element (1-based) of a non-empty sequence, duplicates kept
KthSmallestIsLeast(values, k) ==
    CHOOSE v \in {values[i] : i \in 1..Len(values)} :
        \A i \in 1..Len(values) : v <= values[i]
KthSmallest(values, k) ==
    CHOOSE v \in {values[i] : i \in 1..Len(values)} :
        /\ Cardinality({i \in 1..Len(values) : values[i] < v}) < k
        /\ Cardinality({i \in 1..Len(values) : values[i] <= v}) >= k

smooth_signal2(values) ==
    LET recent == LastN(values, SmoothWindow)
        n == Len(recent)
        mid == n \div 2
    IN  IF n = 0 THEN 0
        ELSE IF n % 2 = 0
             THEN KthSmallest(recent, mid) + KthSmallest(recent, mid + 1)
             ELSE 2 * KthSmallest(recent, mid + 1)

(***************************************************************************)
(* RepCounter                                                              *)
(***************************************************************************)
TrackStateStartsDown(set_id, now) ==
    [ exercise_type     |-> "squat",
      set_id            |-> set_id,
      rep_count         |-> 0,
      phase             |-> "down",
      angle_history     |-> <<>>,
      phase_frame_count |-> 0,
      last_seen_at      |-> now ]
\* rep_counter.py 32-40
TrackState(set_id, now) ==
    [ exercise_type     |-> "squat",
      set_id            |-> set_id,
      rep_count         |-> 0,
      phase             |-> "unknown",
      angle_history     |-> <<>>,
      phase_frame_count |-> 0,
      last_seen_at      |-> now ]

\* deque(maxlen=_ANGLE_HISTORY).append
Append7(history, angle) ==
    LET h == Append(history, angle)
    IN  IF Len(h) > ANGLE_HISTORY THEN Tail(h) ELSE h

\* rep_counter.py 83-94: the zones of the smoothed angle for the thresholds
\* of the exercise definition
in_upIgnoresOrder(smoothed2, up_thresh, down_thresh) == smoothed2 >= 2 * up_thresh
in_up(smoothed2, up_thresh, down_thresh) ==
    IF up_thresh > down_thresh
    THEN smoothed2 >= 2 * up_thresh
    ELSE smoothed2 <= 2 * up_thresh

in_down(smoothed2, up_thresh, down_thresh) ==
    IF up_thresh > down_thresh
    THEN smoothed2 <= 2 * down_thresh
    ELSE smoothed2 >= 2 * down_thresh

\* rep_counter.py 96-100
candidate_phase(smoothed2, up_thresh, down_thresh) ==
    IF in_up(smoothed2, up_thresh, down_thresh) THEN "up"
    ELSE IF in_down(smoothed2, up_thresh, down_thresh) THEN "down" ELSE "none"

\* the squat
InUp(smoothed2) == in_up(smoothed2, up_angle, down_angle)

InDown(smoothed2) == in_down(smoothed2, up_angle, down_angle)

Candidate(smoothed2) == candidate_phase(smoothed2, up_angle, down_angle)

\* exercise_registry.py 25-34: the fields of an ExerciseDefinition the rep
\* counter reads
SquatDef == [name |-> "squat", up_angle |-> up_angle, down_angle |-> down_angle]

\* rep_counter.py 109: the candidate has not been seen often enough yet
LockPendingWrongConstant(phase_frame_count) == phase_frame_count < ANGLE_HISTORY
LockPending(phase_frame_count) == phase_frame_count < PHASE_LOCK

\* rep_counter.py 118: the transition that counts a rep
IsRepAnyUp(prev_phase, candidate) == candidate = "up"
IsRep(prev_phase, candidate) == prev_phase = "down" /\ candidate = "up"

\* rep_counter.py 128-138
RepCountedEventStale(track_id, state, candidate, timestamp_ns) ==
    [ kind            |-> "RepCountedEvent",
      camera_id       |-> "",
      track_id        |-> track_id,
      exercise_set_id |-> state.set_id,
      exercise_type   |-> "squat",
      rep_number      |-> state.rep_count - 1,
      rep_count       |-> state.rep_count - 1,
      duration_ms     |-> 0,
      phase           |-> candidate,
      timestamp_ns    |-> timestamp_ns ]
RepCountedEvent(track_id, state, candidate, timestamp_ns) ==
    [ kind            |-> "RepCountedEvent",
      camera_id       |-> "",
      track_id        |-> track_id,
      exercise_set_id |-> state.set_id,
      exercise_type   |-> "squat",
      rep_number      |-> state.rep_count,
      rep_count       |-> state.rep_count,
      duration_ms     |-> 0,
      phase           |-> candidate,
      timestamp_ns    |-> timestamp_ns ]

\* rep_counter.py 146: the track was idle too long
IdleExpiredInclusive(now, last_seen_at) ==
    now - last_seen_at >= set_idle_timeout_s * ticks_per_s
IdleExpired(now, last_seen_at) ==
    now - last_seen_at > set_idle_timeout_s * ticks_per_s

get_or_createAlwaysFresh(trk, track_id, now, fresh_id) ==
    [t \in DOMAIN trk \cup {track_id} |->
        IF t = track_id THEN TrackState(fresh_id, now) ELSE trk[t]]
\* rep_counter.py 141-156: the dict after _get_or_create; `now` is the clock
\* read of line 142, a fresh TrackState stamps itself with the clock as well
get_or_create(trk, track_id, now, fresh_id) ==
    IF track_id \in DOMAIN trk
    THEN IF IdleExpired(now, trk[track_id].last_seen_at)
         THEN [trk EXCEPT ![track_id] = TrackState(fresh_id, now)]
         ELSE trk
    ELSE [t \in DOMAIN trk \cup {track_id} |->
             IF t = track_id THEN TrackState(fresh_id, now) ELSE trk[t]]

\* whether _get_or_create constructs a TrackState (and so draws a uuid)
Constructs(trk, track_id, now) ==
    \/ track_id \notin DOMAIN trk
    \/ IdleExpired(now, trk[track_id].last_seen_at)

\* rep_counter.py 77-139: the state after the frame and the value returned
\* for the RepCounter of the exercise definition def
processFor(def, state, track_id, angle, timestamp_ns) ==
    IF angle = NoAngle THEN [state |-> state, event |-> NoEvent]
    ELSE
    LET history == Append7(state.angle_history, angle)
        smoothed2 == smooth_signal2(history)
        candidate == candidate_phase(smoothed2, def.up_angle, def.down_angle)
        st1 == [state EXCEPT !.angle_history = history]
    IN  IF candidate = "none" \/ candidate = state.phase
        THEN [state |-> [st1 EXCEPT !.phase_frame_count = 0], event |-> NoEvent]
        ELSE
        LET st2 == [st1 EXCEPT !.phase_frame_count = @ + 1]
        IN  IF LockPending(st2.phase_frame_count)
            THEN [state |-> st2, event |-> NoEvent]
            ELSE
            LET st3 == [st2 EXCEPT !.phase = candidate, !.phase_frame_count = 0]
            IN  IF IsRep(state.phase, candidate)
                THEN LET st4 == [st3 EXCEPT !.rep_count = @ + 1]
                     IN  [state |-> st4,
                          event |-> [RepCountedEvent(track_id, st4, candidate, timestamp_ns)
                                       EXCEPT !.exercise_type = def.name]]
                ELSE [state |-> st3, event |-> NoEvent]

process(state, track_id, angle, timestamp_ns) ==
    processFor(SquatDef, state, track_id, angle, timestamp_ns)

\* the smoothed value of this frame satisfies the down condition (observer)
FrameInDown(state, angle) ==
    /\ angle # NoAngle
    /\ InDown(smooth_signal2(Append7(state.angle_history, angle)))

\* the set the track is in before a call, 0 when it has no TrackState (observer)
SetBefore(track_id) ==
    IF track_id \in DOMAIN tracks THEN tracks[track_id].set_id ELSE 0

\* rep_counter.py 59-139: update(track_id, angle, timestamp_ns); t1 is the clock
\* read of line 72 and t2 >= t1 the one of line 142
updateFor(def, track_id, angle, timestamp_ns, t1, t2) ==
    LET trk1 == get_or_create(tracks, track_id, t2, next_set_id)
        st == [trk1[track_id] EXCEPT !.last_seen_at = t1,
                                     !.exercise_type = def.name]
        r == processFor(def, st, track_id, angle, timestamp_ns)
    IN  /\ tracks' = [trk1 EXCEPT ![track_id] = r.state]
        /\ next_set_id' = IF Constructs(tracks, track_id, t2)
                          THEN next_set_id + 1 ELSE next_set_id
        /\ clock' = t2
        /\ ret' = [op |-> "update", track_id |-> track_id, angle |-> angle,
                   set_before |-> SetBefore(track_id), event |-> r.event]
        /\ down_seen' = [down_seen EXCEPT ![track_id] = @ \/ FrameInDown(st, angle)]

update(track_id, angle, timestamp_ns, t1, t2) ==
    updateFor(SquatDef, track_id, angle, timestamp_ns, t1, t2)

\* rep_counter.py 161-162
get_rep_count(trk, track_id) ==
    IF track_id \in DOMAIN trk THEN trk[track_id].rep_count ELSE 0

\* one update call: `gaps` is the time that may pass before the call and
\* `skews` the time that may pass between its two clock reads
UpdateAmong(ids, angles, stamps, gaps, skews) ==
    \E track_id \in ids, angle \in angles \cup {NoAngle},
       timestamp_ns \in stamps, d1 \in gaps, d2 \in skews :
        /\ clock + d1 + d2 <= MaxClock
        /\ update(track_id, angle, timestamp_ns, clock + d1, clock + d1 + d2)
        /\ tracks'[track_id].rep_count <= MaxReps
        /\ UNCHANGED <<s1, ticks_per_s, form_vars, pipe_vars, svc_vars, more_vars>>

UpdateWith(angles, stamps, gaps, skews) ==
    UpdateAmong(Tracks, angles, stamps, gaps, skews)

\* rep_counter.py 158-159: get_set_id(track_id)
GetSetIdWith(gaps) ==
    \E track_id \in Tracks, d1 \in gaps :
        /\ clock + d1 <= MaxClock
        /\ tracks' = get_or_create(tracks, track_id, clock + d1, next_set_id)
        /\ next_set_id' = IF Constructs(tracks, track_id, clock + d1)
                          THEN next_set_id + 1 ELSE next_set_id
        /\ clock' = clock + d1
        /\ ret' = [op |-> "get_set_id", track_id |-> track_id, angle |-> NoAngle,
                   set_before |-> SetBefore(track_id), event |-> NoEvent]
        /\ UNCHANGED <<down_seen, s1, ticks_per_s, form_vars, pipe_vars, svc_vars, more_vars>>

\* frames of any angle, back to back or after a gap that exceeds the timeout
Update == UpdateWith(Angles, {0}, {0, set_idle_timeout_s + 1}, {0})
GetSetId == GetSetIdWith({0, set_idle_timeout_s + 1})

\* frames of two angles at any time, the two clock reads up to a tick apart
UpdateTimed == UpdateWith(CoarseAngles, TimestampInputs, 0..(set_idle_timeout_s + 1), 0..1)
GetSetIdTimed == GetSetIdWith(0..(set_idle_timeout_s + 1))

(***************************************************************************)
(* FormAnalyzer                                                            *)
(*                                                                         *)
(* The form checks of the squat come from data/exercises.yaml, which the   *)
(* tests describe: knee_cave on joint 11-13-15 with the range [80, 180]    *)
(* and shallow_depth with the range [0, 115].  shallow_depth is given a    *)
(* joint of its own, so that the two angles of a frame are independent.    *)
(***************************************************************************)
FormTracks == {1, 2}

form_checks ==
    << [name |-> "knee_cave", joint |-> "11-13-15", min_angle |-> 80,
        max_angle |-> 180, alert_key |-> "knee_cave"],
       [name |-> "shallow_depth", joint |-> "12-14-16", min_angle |-> 0,
        max_angle |-> 115, alert_key |-> "shallow_depth"] >>

AlertKeys == {form_checks[i].alert_key : i \in 1..Len(form_checks)}
Joints == {form_checks[i].joint : i \in 1..Len(form_checks)}

\* the angle of a joint in a frame: undefined, inside the range of its check
\* (100), or outside it (50 is below knee_cave's, 150 above shallow_depth's)
JointAngles(joint) ==
    IF joint = "11-13-15" THEN {NoAngle, 50, 100} ELSE {NoAngle, 100, 150}

FrameAngles == {a \in [Joints -> {NoAngle, 50, 100, 150}] :
                   \A j \in Joints : a[j] \in JointAngles(j)}

\* form_analyzer.py 25-28
AlertState == [consecutive_frames |-> 0, last_fired_at |-> 0]

\* form_analyzer.py 68
OutOfRange(check, angle) == ~(check.min_angle <= angle /\ angle <= check.max_angle)

\* form_analyzer.py 60-63: the joint is not observable
UnobservableKeepsCount(state) == state
Unobservable(state) == [state EXCEPT !.consecutive_frames = 0]

\* form_analyzer.py 78
DebouncePendingOffByOne(consecutive_frames) == consecutive_frames < DEBOUNCE_FRAMES - 1
DebouncePending(consecutive_frames) == consecutive_frames < DEBOUNCE_FRAMES

\* form_analyzer.py 82
InCooldown(now, last_fired_at) ==
    now - last_fired_at < COOLDOWN_SECONDS * ticks_per_s

\* form_analyzer.py 85
FiredNoStamp(state, now) == state
FiredResetsCount(state, now) ==
    [state EXCEPT !.last_fired_at = now, !.consecutive_frames = 0]
Fired(state, now) == [state EXCEPT !.last_fired_at = now]

\* form_analyzer.py 93-106
FormAlertEvent(call, check, joint_angles) ==
    [ camera_id       |-> "",
      track_id        |-> call.track_id,
      exercise_set_id |-> call.exercise_set_id,
      exercise_type   |-> "squat",
      rep_count       |-> call.rep_count,
      alert_key       |-> check.alert_key,
      joint_angles    |-> joint_angles,
      timestamp_ns    |-> call.timestamp_ns ]

\* form_analyzer.py 57-106: the loop over the form checks from check i on;
\* st is self._states[track_id], alerts and joint_angles are the locals
RECURSIVE check_loop(_, _, _, _, _)
check_loop(i, st, alerts, joint_angles, call) ==
    IF i > Len(form_checks) THEN [st |-> st, alerts |-> alerts]
    ELSE
    LET check == form_checks[i]
        key == check.alert_key
        angle == call.angles[check.joint]
    IN  IF angle = NoAngle
        THEN check_loop(i + 1, [st EXCEPT ![key] = Unobservable(@)],
                        alerts, joint_angles, call)
        ELSE
        LET ja == [j \in DOMAIN joint_angles \cup {check.joint} |->
                      IF j = check.joint THEN angle ELSE joint_angles[j]]
        IN  IF ~OutOfRange(check, angle)
            THEN check_loop(i + 1, [st EXCEPT ![key].consecutive_frames = 0],
                            alerts, ja, call)
            ELSE
            LET st1 == [st EXCEPT ![key].consecutive_frames = @ + 1]
            IN  IF DebouncePending(st1[key].consecutive_frames)
                THEN check_loop(i + 1, st1, alerts, ja, call)
                ELSE IF InCooldown(call.now, st1[key].last_fired_at)
                THEN check_loop(i + 1, st1, alerts, ja, call)
                ELSE check_loop(i + 1, [st1 EXCEPT ![key] = Fired(@, call.now)],
                                Append(alerts, FormAlertEvent(call, check, ja)),
                                ja, call)

\* the alert_keys of the alerts a call returned
KeysOf(alerts) == {alerts[i].alert_key : i \in 1..Len(alerts)}

\* the check of alert_key k
CheckOf(k) == form_checks[CHOOSE i \in 1..Len(form_checks) : form_checks[i].alert_key = k]

\* in a frame with these joint angles the check of alert_key k is out of range
Violated(angles, k) ==
    /\ angles[CheckOf(k).joint] # NoAngle
    /\ OutOfRange(CheckOf(k), angles[CheckOf(k).joint])

\* form_analyzer.py 44-108: check(track_id, keypoints, exercise_set_id,
\* rep_count, timestamp_ns) at clock value now; angles gives the angle that
\* get_joint_angle computes from the keypoints for each joint
check(track_id, angles, exercise_set_id, rep_count, timestamp_ns, now) ==
    LET call == [track_id |-> track_id, angles |-> angles,
                 exercise_set_id |-> exercise_set_id, rep_count |-> rep_count,
                 timestamp_ns |-> timestamp_ns, now |-> now]
        r == check_loop(1, states[track_id], << >>, << >>, call)
    IN  /\ states' = [states EXCEPT ![track_id] = r.st]
        /\ clock' = now
        /\ chk' = [op |-> "check", track_id |-> track_id, alerts |-> r.alerts]
        /\ obs' = [obs EXCEPT ![track_id] = [k \in AlertKeys |->
                     [ last_alert_at |-> IF k \in KeysOf(r.alerts) THEN now
                                         ELSE @[k].last_alert_at,
                       alert_count |-> IF k \in KeysOf(r.alerts)
                                       THEN @[k].alert_count + 1
                                       ELSE @[k].alert_count,
                       recent |-> <<@[k].recent[2], @[k].recent[3],
                                    Violated(angles, k)>> ]]]

\* one check call: `callers` are the tracks that may be checked and `gaps`
\* the time that may pass before the call
CheckWith(callers, gaps) ==
    \E track_id \in callers, angles \in FrameAngles, d \in gaps :
        /\ clock + d <= MaxFormClock
        /\ check(track_id, angles, "test-set-id", 3, 0, clock + d)
        /\ \A k \in AlertKeys : states'[track_id][k].consecutive_frames <= MaxConsec
        /\ UNCHANGED <<ticks_per_s, rep_vars, s5, pipe_vars, svc_vars, more_vars>>

\* frames of one track, back to back or half or all of the cooldown apart
Check == CheckWith({1}, {0, 5, 10})

\* frames of two tracks in any interleaving, without time passing
CheckTracks == CheckWith(FormTracks, {0})

NoCheck == [op |-> "none", track_id |-> 0, alerts |-> << >>]

\* FormAnalyzer.__init__ (form_analyzer.py 37-42); an AlertState that the
\* defaultdict has not created yet reads as the default AlertState
FormAnalyzerInit ==
    /\ states = [t \in FormTracks |-> [k \in AlertKeys |-> AlertState]]
    /\ chk = NoCheck
    /\ obs = [t \in FormTracks |-> [k \in AlertKeys |->
                [last_alert_at |-> 0, alert_count |-> 0,
                 recent |-> <<FALSE, FALSE, FALSE>>]]]

(***************************************************************************)
(* The service: main.run with one ExercisePipeline per camera, and the     *)
(* Redis server that keeps the input streams and their consumer group.     *)
(* Here a message is handled in one step: _process, or the handler of      *)
(* run(), with the acknowledgement that ends it.  Ids of a stream are      *)
(* 1, 2, ... in the order of XADD.                                         *)
(***************************************************************************)
Cameras == {"cam-01", "cam-02"}

\* the text of the errors the server or the client answer with
BusyGroup == <<"BUSYGROUP", "Consumer", "Group", "name", "already", "exists">>
ConnectionLost == <<"Connection", "closed", "by", "server">>

\* `word in str(exc)`
Contains(text, word) == \E i \in 1..Len(text) : text[i] = word

\* publisher.py 72-75: the exception is passed on
ReraisedAlways(exc) == TRUE
Reraised(exc) == ~Contains(exc, "BUSYGROUP")

\* XGROUP CREATE stream group 0 MKSTREAM, as the server executes it
xgroup_create(s) ==
    IF s.group
    THEN [stream |-> s, exc |-> BusyGroup]
    ELSE [stream |-> [s EXCEPT !.group = TRUE, !.last_delivered = 0, !.pending = {}],
          exc |-> << >>]

\* XREADGROUP GROUP group consumer COUNT count STREAMS stream > : the
\* entries never delivered to the group, oldest first, at most count
NeverDelivered(s, count) ==
    LET n == IF s.xlen - s.last_delivered < count
             THEN s.xlen - s.last_delivered ELSE count
    IN  [i \in 1..n |-> s.last_delivered + i]

Ids(b) == {b[i] : i \in 1..Len(b)}

xreadgroup(s, count) ==
    LET b == NeverDelivered(s, count)
    IN  [stream |-> [s EXCEPT !.last_delivered = @ + Len(b),
                              !.pending = @ \cup Ids(b)],
         entries |-> b]

\* XACK stream group id
xack(s, id) == [s EXCEPT !.pending = @ \ {id}]

NoTask == [pc |-> "none", batch |-> << >>, exc |-> << >>]
NoOwed == [c \in Cameras |-> {}]

\* nothing of the service has run and the streams do not exist
ServiceInit ==
    /\ fn = [op |-> "none"]
    /\ server = [c \in Cameras |->
                    [xlen |-> 0, group |-> FALSE, last_delivered |-> 0, pending |-> {}]]
    /\ workers = [c \in Cameras |-> NoTask]
    /\ main = [pc |-> "none", starts |-> 0, why |-> "none", owed |-> NoOwed]

(***************************************************************************)
(* ExercisePipeline (services/exercise/src/exercise/pipeline.py), one      *)
(* camera.  The task of run() stands at pc: at an await, where it is       *)
(* suspended until the awaited call returns or raises, or at the           *)
(* synchronous code between two awaits.  The payload of a message is drawn *)
(* when the message is decoded.  The registry holds the squat only, whose  *)
(* primary joint is the joint of knee_cave.  A uuid is a number and its    *)
(* string form a pair, so that the two are told apart.                     *)
(***************************************************************************)
WINDOW == 30
MIN_CONFIDENCE == 50

primary_joint == "11-13-15"

\* pc at an await: the task is suspended and the call may raise
Awaits == {"read", "ack_skip", "flush_session", "flush_track", "flush_set",
           "commit", "publish_rep", "persist", "publish_alert", "ack",
           "handler_ack"}

\* str(uuid) and uuid.UUID(str)
str(u) == <<"str", u>>
UUID(s) == s[2]

\* what model_validate_json makes of a message: a ValidationError, or an
\* event of a track whose keypoints give these joint angles
BadPayload == [ok |-> FALSE]
\* both knees are bent alike
Knees(angle) == [j \in Joints |-> angle]
Frame(track_id, angle) ==
    [ok |-> TRUE, track_id |-> track_id, angles |-> Knees(angle)]

\* track 1 squats or stands, track 2 stands
Payloads == {BadPayload} \cup {Frame(1, a) : a \in CoarseAngles} \cup {Frame(2, 165)}

\* classifier.py 66-78: one more angle in the track's history of 30
classifier_update(hist, track_id) ==
    [hist EXCEPT ![track_id] = IF @ < WINDOW THEN @ + 1 ELSE @]

\* classifier.py 82-111: (exercise, confidence in hundredths); with fewer
\* than 15 angles the exercise is unknown, with more the result depends on
\* the spread of the angles of the four exercises, which is left open
classify(n) ==
    IF n < WINDOW \div 2
    THEN {[exercise |-> "unknown", confidence |-> 0]}
    ELSE {[exercise |-> "unknown", confidence |-> 0],
          [exercise |-> "squat", confidence |-> MIN_CONFIDENCE - 1],
          [exercise |-> "squat", confidence |-> MIN_CONFIDENCE]}

\* pipeline.py 122
SkippedUnknownOnly(c) == c.exercise = "unknown"
Skipped(c) == c.exercise = "unknown" \/ c.confidence < MIN_CONFIDENCE

\* a dict with one more entry
Put(dict, key, value) ==
    [k \in DOMAIN dict \cup {key} |-> IF k = key THEN value ELSE dict[k]]

NoRows == [gym_sessions |-> {}, tracks |-> {}, exercise_sets |-> {},
           rep_events |-> {}]

Merge(r1, r2) ==
    [gym_sessions |-> r1.gym_sessions \cup r2.gym_sessions,
     tracks |-> r1.tracks \cup r2.tracks,
     exercise_sets |-> r1.exercise_sets \cup r2.exercise_sets,
     rep_events |-> r1.rep_events \cup r2.rep_events]

\* uuid.uuid4(): an id that no row has, here the least one; an id drawn
\* for a row that was rolled back is kept nowhere and may be drawn again
UsedIds(r) == {x.id : x \in r.gym_sessions \cup r.tracks \cup r.exercise_sets}
uuid4(r) == CHOOSE n \in 1..(Cardinality(UsedIds(r)) + 1) :
                /\ n \notin UsedIds(r)
                /\ \A m \in 1..(n - 1) : m \in UsedIds(r)

\* session.py 48: the rows of the session become durable
commitSessionFirst(committed, pending) ==
    [Merge(committed, pending) EXCEPT !.tracks = committed.tracks,
                                      !.exercise_sets = committed.exercise_sets]
commit(committed, pending) == Merge(committed, pending)

\* session.py 49-51: the rows of the session are dropped
rollbackKeepsFlushed(committed, pending) == Merge(committed, pending)
rollback(committed, pending) == committed

\* pipeline.py 214-218, 223-229, 234-241
GymSession(id, track_id) == [id |-> id, primary_track_ids |-> <<str(track_id)>>]
Track(id, track_id) == [id |-> id, camera_id |-> "cam", local_track_id |-> track_id]
ExerciseSet(id, session_id, track_id, exercise_type) ==
    [id |-> id, session_id |-> session_id, track_id |-> track_id,
     exercise_type |-> exercise_type]

\* pipeline.py 262-268
RepEventOfCount(event, set_id) ==
    [exercise_set_id |-> UUID(set_id), rep_number |-> event.rep_count - 1]
RepEvent(event, set_id) ==
    [exercise_set_id |-> UUID(set_id), rep_number |-> event.rep_number]

\* pipeline.py 142-152 and 172-183: the event with camera_id and set_id
Rewrap(event, set_id) ==
    [event EXCEPT !.camera_id = "cam", !.exercise_set_id = set_id]

\* publisher.py 90-110: the entries XREADGROUP ">" returns, oldest first
read_groupNewestFirst(n) == [i \in 1..n |-> n + 1 - i]
read_group(n) == [i \in 1..n |-> i]

NoLocals == [track_id |-> 0, exercise_name |-> "none", confidence |-> 0]

\* the for loop of run() goes on to the next message, or to the next read
NextMessage(b) == IF Len(b) > 1 THEN "process" ELSE "read"

Locals(track_id, angles, c) ==
    [track_id |-> track_id, angles |-> angles,
     exercise_name |-> c.exercise, confidence |-> c.confidence, set_id |-> str(0),
     session |-> 0, track |-> 0, ex_set |-> 0,
     rep_event |-> NoEvent, alerts |-> << >>]

env_vars == <<clock, ticks_per_s, rep_vars, form_vars>>

\* publisher.py 78-110 awaited at pipeline.py 93: up to read_batch new
\* messages, none when the block time runs out; an exception leaves run()
ReadGroup ==
    /\ pc = "read"
    /\ \E n \in 0..read_batch, ok \in BOOLEAN :
          IF ok
          THEN /\ batch' = read_group(n)
               /\ acked' = {}
               /\ pc' = IF n = 0 THEN "read" ELSE "process"
          ELSE /\ n = 0
               /\ pc' = "crashed"
               /\ UNCHANGED <<batch, acked>>
    /\ UNCHANGED <<loc, cls_vars, ids_vars, db_vars, bus_vars, env_vars, svc_vars, more_vars>>

\* pipeline.py 116-137 and 208-219: decode, classify, and for a confident
\* classification look up the set id or open the bootstrap transaction.
\* The event is taken up `d` ticks of the clock after the message before it.
ProcessAfter(payloads, limit, gaps) ==
    /\ pc = "process"
    /\ \E m \in payloads :
          IF ~m.ok
          THEN /\ pc' = "handler_ack"
               /\ UNCHANGED <<loc, cls_vars, tx, clock>>
          ELSE
          LET h == classifier_update(histories, m.track_id)
          IN  \E c \in classify(h[m.track_id]), d \in gaps :
                /\ clock + d <= COOLDOWN_SECONDS + MaxQuiet
                /\ clock' = clock + d
                /\ histories' = h
                /\ frame_count' = frame_count
                /\ IF Skipped(c)
                   THEN /\ pc' = "ack_skip"
                        /\ loc' = [NoLocals EXCEPT !.exercise_name = c.exercise,
                                                   !.confidence = c.confidence]
                        /\ UNCHANGED <<track_exercise, tx>>
                   ELSE /\ frame_count < limit
                        /\ track_exercise' = Put(track_exercise, m.track_id, c.exercise)
                        /\ IF m.track_id \in DOMAIN track_set_ids
                           THEN /\ loc' = [Locals(m.track_id, m.angles, c) EXCEPT
                                             !.set_id = track_set_ids[m.track_id]]
                                /\ pc' = "update"
                                /\ tx' = tx
                           ELSE /\ loc' = [Locals(m.track_id, m.angles, c) EXCEPT
                                             !.session = uuid4(rows)]
                                /\ tx' = [NoRows EXCEPT !.gym_sessions =
                                            {GymSession(uuid4(rows), m.track_id)}]
                                /\ pc' = "flush_session"
    /\ UNCHANGED <<batch, acked, ids_vars, rows, attempts,
                   bus_vars, ticks_per_s, rep_vars, form_vars, svc_vars, more_vars>>

ProcessWith(payloads, limit) == ProcessAfter(payloads, limit, {0})

Process == ProcessWith(Payloads, MaxFrames)

\* session.py 49-51 and pipeline.py 104-110: the exception rolls the
\* session back and reaches the handler of run()
DbRaisesSwallowed ==
    /\ rows' = rollback(rows, tx)
    /\ tx' = NoRows
    /\ pc' = "update"
    /\ UNCHANGED <<loc, ids_vars>>
DbRaises ==
    /\ rows' = rollback(rows, tx)
    /\ tx' = NoRows
    /\ pc' = "handler_ack"
    /\ UNCHANGED <<loc, ids_vars>>

\* pipeline.py 220-230: the flush of the GymSession, then the Track is added
FlushSession ==
    /\ pc = "flush_session"
    /\ \E ok \in BOOLEAN :
          IF ok
          THEN /\ tx' = [tx EXCEPT !.tracks =
                           {Track(uuid4(Merge(rows, tx)), loc.track_id)}]
               /\ loc' = [loc EXCEPT !.track = uuid4(Merge(rows, tx))]
               /\ pc' = "flush_track"
               /\ UNCHANGED <<rows, ids_vars>>
          ELSE DbRaises
    /\ UNCHANGED <<batch, acked, cls_vars, attempts, bus_vars, env_vars, svc_vars, more_vars>>

\* pipeline.py 231-242: the flush of the Track, then the ExerciseSet is added
FlushTrack ==
    /\ pc = "flush_track"
    /\ \E ok \in BOOLEAN :
          IF ok
          THEN /\ tx' = [tx EXCEPT !.exercise_sets =
                           {ExerciseSet(uuid4(Merge(rows, tx)), loc.session,
                                        loc.track, track_exercise[loc.track_id])}]
               /\ loc' = [loc EXCEPT !.ex_set = uuid4(Merge(rows, tx))]
               /\ pc' = "flush_set"
               /\ UNCHANGED <<rows, ids_vars>>
          ELSE DbRaises
    /\ UNCHANGED <<batch, acked, cls_vars, attempts, bus_vars, env_vars, svc_vars, more_vars>>

\* pipeline.py 243-245: the flush of the ExerciseSet, then the block ends
FlushSet ==
    /\ pc = "flush_set"
    /\ \E ok \in BOOLEAN :
          IF ok
          THEN /\ loc' = [loc EXCEPT !.set_id = str(loc.ex_set)]
               /\ pc' = "commit"
               /\ UNCHANGED <<rows, tx, ids_vars>>
          ELSE DbRaises
    /\ UNCHANGED <<batch, acked, cls_vars, attempts, bus_vars, env_vars, svc_vars, more_vars>>

\* session.py 48 and pipeline.py 247-257: the commit, then the three ids
\* are cached
Commit ==
    /\ pc = "commit"
    /\ \E ok \in BOOLEAN :
          IF ok
          THEN /\ rows' = commit(rows, tx)
               /\ tx' = NoRows
               /\ track_session_ids' = Put(track_session_ids, loc.track_id, str(loc.session))
               /\ track_db_ids' = Put(track_db_ids, loc.track_id, str(loc.track))
               /\ track_set_ids' = Put(track_set_ids, loc.track_id, loc.set_id)
               /\ pc' = "update"
               /\ loc' = loc
          ELSE DbRaises
    /\ UNCHANGED <<batch, acked, cls_vars, attempts, bus_vars, env_vars, svc_vars, more_vars>>

\* pipeline.py 140-152: the rep counter takes the primary angle
RepCounterStep ==
    /\ pc = "update"
    /\ update(loc.track_id, loc.angles[primary_joint], 0, clock, clock)
    /\ loc' = [loc EXCEPT !.rep_event =
                 IF ret'.event = NoEvent THEN NoEvent
                 ELSE Rewrap(ret'.event, loc.set_id)]
    /\ pc' = IF ret'.event = NoEvent THEN "check" ELSE "publish_rep"
    /\ UNCHANGED <<s1, ticks_per_s, form_vars, batch, acked,
                   cls_vars, ids_vars, db_vars, bus_vars, svc_vars, more_vars>>

\* an awaited call of the bus raises and the handler of run() takes over
BusRaises ==
    /\ pc' = "handler_ack"
    /\ UNCHANGED <<loc, cls_vars, db_vars, rep_counted, form_alerts>>

\* pipeline.py 153-154 and 259-269: the rep event is published, then
\* _persist_rep_event adds the row to a session of its own
PublishRep ==
    /\ pc = "publish_rep"
    /\ \E ok \in BOOLEAN :
          IF ok
          THEN /\ rep_counted' = Append(rep_counted, loc.rep_event)
               /\ attempts' = attempts \cup {RepEvent(loc.rep_event, loc.set_id)}
               /\ tx' = [NoRows EXCEPT !.rep_events =
                           {RepEvent(loc.rep_event, loc.set_id)}]
               /\ pc' = "persist"
               /\ UNCHANGED <<loc, cls_vars, rows, form_alerts>>
          ELSE BusRaises
    /\ UNCHANGED <<batch, acked, ids_vars, redis_open, inflight, env_vars, svc_vars, more_vars>>

\* session.py 48: the commit of the RepEvent row
PersistRepRetracts ==
    /\ pc = "persist"
    /\ \E ok \in BOOLEAN :
          IF ok
          THEN /\ rows' = commit(rows, tx)
               /\ tx' = NoRows
               /\ pc' = "check"
               /\ UNCHANGED <<loc, ids_vars, rep_counted>>
          ELSE /\ DbRaises
               /\ rep_counted' = SubSeq(rep_counted, 1, Len(rep_counted) - 1)
    /\ UNCHANGED <<batch, acked, cls_vars, attempts, form_alerts, redis_open,
                   inflight, env_vars, svc_vars, more_vars>>
PersistRep ==
    /\ pc = "persist"
    /\ \E ok \in BOOLEAN :
          IF ok
          THEN /\ rows' = commit(rows, tx)
               /\ tx' = NoRows
               /\ pc' = "check"
               /\ UNCHANGED <<loc, ids_vars>>
          ELSE DbRaises
    /\ UNCHANGED <<batch, acked, cls_vars, attempts, bus_vars, env_vars, svc_vars, more_vars>>

\* pipeline.py 164-183 (and 192 when no alert is to be published)
FormAnalyzerStep ==
    /\ pc = "check"
    /\ check(loc.track_id, loc.angles, loc.set_id,
             get_rep_count(tracks, loc.track_id), 0, clock)
    /\ loc' = [loc EXCEPT !.alerts =
                 [i \in 1..Len(chk'.alerts) |-> Rewrap(chk'.alerts[i], loc.set_id)]]
    /\ pc' = IF chk'.alerts = << >> THEN "ack" ELSE "publish_alert"
    /\ frame_count' = IF chk'.alerts = << >> THEN frame_count + 1 ELSE frame_count
    /\ UNCHANGED <<s5, ticks_per_s, rep_vars, batch, acked,
                   histories, track_exercise, ids_vars, db_vars, bus_vars, svc_vars, more_vars>>

\* pipeline.py 184-192: the next alert is published
PublishAlert ==
    /\ pc = "publish_alert"
    /\ \E ok \in BOOLEAN :
          IF ok
          THEN /\ form_alerts' = Append(form_alerts, Head(loc.alerts))
               /\ loc' = [loc EXCEPT !.alerts = Tail(@)]
               /\ pc' = IF Len(loc.alerts) > 1 THEN "publish_alert" ELSE "ack"
               /\ frame_count' = IF Len(loc.alerts) > 1 THEN frame_count
                                 ELSE frame_count + 1
               /\ UNCHANGED <<histories, track_exercise, db_vars, rep_counted>>
          ELSE BusRaises
    /\ UNCHANGED <<batch, acked, ids_vars, redis_open, inflight, env_vars, svc_vars, more_vars>>

\* publisher.py 113-115
ackNothing(ids, msg_id) == ids
ackThroughNext(ids, msg_id) == ids \cup {msg_id, msg_id + 1}
ack(ids, msg_id) == ids \cup {msg_id}

\* pipeline.py 123 and 202: the message is acknowledged and the loop goes on
Ack ==
    /\ pc \in {"ack", "ack_skip"}
    /\ \E ok \in BOOLEAN :
          IF ok
          THEN /\ acked' = ack(acked, Head(batch))
               /\ batch' = Tail(batch)
               /\ pc' = NextMessage(batch)
               /\ loc' = NoLocals
          ELSE /\ pc' = "handler_ack"
               /\ UNCHANGED <<acked, batch, loc>>
    /\ UNCHANGED <<cls_vars, ids_vars, db_vars, bus_vars, env_vars, svc_vars, more_vars>>

\* pipeline.py 104-111: the handler logs and acknowledges; an exception of
\* this ack leaves run()
HandlerAck ==
    /\ pc = "handler_ack"
    /\ \E ok \in BOOLEAN :
          IF ok
          THEN /\ acked' = ack(acked, Head(batch))
               /\ batch' = Tail(batch)
               /\ pc' = NextMessage(batch)
               /\ loc' = NoLocals
          ELSE /\ pc' = "crashed"
               /\ UNCHANGED <<acked, batch, loc>>
    /\ UNCHANGED <<cls_vars, ids_vars, db_vars, bus_vars, env_vars, svc_vars, more_vars>>

\* main.py 40-43: the signal handler cancels the task; CancelledError is
\* raised at the await the task is suspended at and passes the handlers of
\* Exception (pipeline.py 104, session.py 49).  The read is given up and
\* the open database session is closed, which drops what was only flushed;
\* a command already sent (XADD, XACK, COMMIT) may or may not have taken
\* effect.
Cancel ==
    /\ pc \in Awaits
    /\ \E done \in BOOLEAN :
          /\ pc \in {"read", "flush_session", "flush_track", "flush_set"} => ~done
          /\ inflight' = [op |-> pc, done |-> done]
          /\ rep_counted' = IF pc = "publish_rep" /\ done
                            THEN Append(rep_counted, loc.rep_event) ELSE rep_counted
          /\ form_alerts' = IF pc = "publish_alert" /\ done
                            THEN Append(form_alerts, Head(loc.alerts)) ELSE form_alerts
          /\ acked' = IF pc \in {"ack", "ack_skip", "handler_ack"} /\ done
                      THEN ack(acked, Head(batch)) ELSE acked
          /\ rows' = IF pc \in {"commit", "persist"} /\ done
                     THEN commit(rows, tx) ELSE rollback(rows, tx)
    /\ tx' = NoRows
    /\ pc' = "cancelled"
    /\ UNCHANGED <<batch, loc, cls_vars, ids_vars,
                   attempts, redis_open, env_vars, svc_vars, more_vars>>

\* main.py 48-54: gather has ended, by CancelledError or by the exception
\* of a pipeline, and the client is closed
Release ==
    /\ pc \in {"cancelled", "crashed"}
    /\ redis_open' = FALSE
    /\ pc' = IF pc = "cancelled" THEN "stopped" ELSE "failed"
    /\ UNCHANGED <<batch, acked, loc, cls_vars, ids_vars,
                   db_vars, rep_counted, form_alerts, inflight, env_vars, svc_vars, more_vars>>

NotCancelled == [op |-> "none", done |-> FALSE]

\* ExercisePipeline.__init__ (pipeline.py 48-83) and the start of run()
ExercisePipelineInit ==
    /\ pc = "read"
    /\ batch = << >>
    /\ acked = {}
    /\ loc = NoLocals
    /\ track_exercise = << >>
    /\ frame_count = 0
    /\ track_session_ids = << >>
    /\ track_db_ids = << >>
    /\ track_set_ids = << >>
    /\ rows = NoRows
    /\ tx = NoRows
    /\ attempts = {}
    /\ rep_counted = << >>
    /\ form_alerts = << >>
    /\ redis_open = TRUE
    /\ inflight = NotCancelled

\* HeuristicClassifier.__init__ (classifier.py 50-53)
HeuristicClassifierInit == histories = [t \in FormTracks |-> 0]

NoCall ==
    [op |-> "none", track_id |-> 0, angle |-> NoAngle, set_before |-> 0,
     event |-> NoEvent]

(***************************************************************************)
(* Two pipeline processes of one camera, the guidance service and the      *)
(* ingestion service: their state after construction.                      *)
(***************************************************************************)
\* EXERCISE_CONSUMER_NAME of the two processes (config.py 29)
Consumers == {"exercise-0", "exercise-1"}

\* pipeline.py 59-80: each process has its own classifier, RepCounter and
\* dicts; `seen` counts the messages the process was given (observer)
ExercisePipelineOf(c) ==
    [ hist          |-> [t \in Tracks |-> 0],
      tracks        |-> << >>,
      next_set_id   |-> 1,
      track_set_ids |-> << >>,
      seen          |-> 0 ]

\* the database and the rep_counted stream, shared by the processes
NoStore == [rows |-> NoRows, rep_counted |-> << >>, delivered |-> 0]

\* form_alert_handler.py 32-44; now is time.monotonic(), last_call the time
\* of the latest generate_guidance call of each track (observer)
FormAlertHandlerInit ==
    handler = [ now |-> 0, last_sent |-> << >>, last_call |-> << >>,
                llm_called |-> 0, consumed |-> 0, acked |-> 0, dispatched |-> 0 ]

BACKOFF_BASE == 1
BACKOFF_MAX == 30

\* camera_reader.py 61-71 and 79: run() at the head of its loop; failures
\* counts the failures in a row, slept is the last time.sleep (observers)
CameraReaderInit ==
    reader = [ pc |-> "loop", backoff |-> BACKOFF_BASE, stop |-> FALSE,
               failures |-> 0, slept |-> 0, calls |-> 0 ]

MoreInit ==
    /\ replicas = [c \in Consumers |-> ExercisePipelineOf(c)]
    /\ store = NoStore
    /\ FormAlertHandlerInit
    /\ CameraReaderInit

\* RepCounter.__init__ (rep_counter.py 50-57)
RepCounterInit ==
    /\ tracks = << >>
    /\ next_set_id = 1
    /\ ret = NoCall
    /\ down_seen = [t \in Tracks \cup FormTracks |-> FALSE]

InitRep ==
    /\ clock = 0
    /\ ticks_per_s = 1
    /\ RepCounterInit
    /\ s1 = [k |-> 0, fed |-> 0, events |-> {}]
    /\ FormAnalyzerInit
    /\ ExercisePipelineInit
    /\ ServiceInit
    /\ MoreInit
    /\ HeuristicClassifierInit
    /\ s5 = [fed |-> 0, alerts |-> {}]

NextRep == Update \/ GetSetId

SpecRep == InitRep /\ [][NextRep]_vars

NextIdle == UpdateTimed \/ GetSetIdTimed

SpecIdle == InitRep /\ [][NextIdle]_vars

(***************************************************************************)
(* Scenario S1 (tests/test_exercise.py 96-123): six samples of 165, then k *)
(* cycles of eight samples of 95 and eight samples of 165, all for track   *)
(* 1, the sample number as timestamp_ns.  s1.events collects the numbers   *)
(* of the samples whose update returned an event.                          *)
(***************************************************************************)
S1Prime == 6
S1Block == 8

S1Length(k) == S1Prime + 2 * S1Block * k

\* the i-th sample fed (1-based)
S1Sample(i) ==
    IF i <= S1Prime THEN 165
    ELSE IF (i - S1Prime - 1) % (2 * S1Block) < S1Block THEN 95 ELSE 165

\* the sample numbers of the 165 block of cycle c
S1UpBlock(c) ==
    (S1Prime + 2 * S1Block * (c - 1) + S1Block + 1)..(S1Prime + 2 * S1Block * c)

FeedS1 ==
    \E d1 \in 0..1 :
        /\ s1.fed < S1Length(s1.k)
        /\ clock + d1 <= MaxClock
        /\ 1 \in DOMAIN tracks => ~IdleExpired(clock + d1, tracks[1].last_seen_at)
        /\ update(1, S1Sample(s1.fed + 1), s1.fed, clock + d1, clock + d1)
        /\ s1' = [s1 EXCEPT !.fed = @ + 1,
                            !.events = IF ret'.event.kind = "RepCountedEvent"
                                       THEN @ \cup {s1.fed + 1} ELSE @]
        /\ UNCHANGED <<ticks_per_s, form_vars, pipe_vars, svc_vars, more_vars>>

InitS1 ==
    /\ clock = 0
    /\ ticks_per_s = 1
    /\ RepCounterInit
    /\ s1 \in [k : 1..MaxCycles, fed : {0}, events : {{}}]
    /\ FormAnalyzerInit
    /\ ExercisePipelineInit
    /\ ServiceInit
    /\ MoreInit
    /\ HeuristicClassifierInit
    /\ s5 = [fed |-> 0, alerts |-> {}]

NextS1 == FeedS1

SpecS1 == InitS1 /\ [][NextS1]_vars

InitForm ==
    /\ clock = 0
    /\ ticks_per_s = 1
    /\ RepCounterInit
    /\ s1 = [k |-> 0, fed |-> 0, events |-> {}]
    /\ FormAnalyzerInit
    /\ ExercisePipelineInit
    /\ ServiceInit
    /\ MoreInit
    /\ HeuristicClassifierInit
    /\ s5 = [fed |-> 0, alerts |-> {}]

NextForm == Check

SpecForm == InitForm /\ [][NextForm]_vars

\* the analyzer is first called when the clock has reached the cooldown
InitFormTracks ==
    /\ clock = COOLDOWN_SECONDS
    /\ ticks_per_s = 1
    /\ RepCounterInit
    /\ s1 = [k |-> 0, fed |-> 0, events |-> {}]
    /\ FormAnalyzerInit
    /\ ExercisePipelineInit
    /\ ServiceInit
    /\ MoreInit
    /\ HeuristicClassifierInit
    /\ s5 = [fed |-> 0, alerts |-> {}]

NextFormTracks == CheckTracks

SpecFormTracks == InitFormTracks /\ [][NextFormTracks]_vars

(***************************************************************************)
(* The pipeline of one camera.  Each track has stood still for 29 or 30    *)
(* frames, which the classifier calls unknown and which leave nothing      *)
(* behind but its history.  No time passes between frames; the clock has   *)
(* reached the cooldown.                                                   *)
(***************************************************************************)
InitPipeline ==
    /\ clock = COOLDOWN_SECONDS
    /\ ticks_per_s = 1
    /\ RepCounterInit
    /\ s1 = [k |-> 0, fed |-> 0, events |-> {}]
    /\ FormAnalyzerInit
    /\ s5 = [fed |-> 0, alerts |-> {}]
    /\ ExercisePipelineInit
    /\ ServiceInit
    /\ MoreInit
    /\ histories \in [FormTracks -> {WINDOW - 1, WINDOW}]

NextPipeline ==
    \/ ReadGroup
    \/ Process
    \/ FlushSession
    \/ FlushTrack
    \/ FlushSet
    \/ Commit
    \/ RepCounterStep
    \/ PublishRep
    \/ PersistRep
    \/ FormAnalyzerStep
    \/ PublishAlert
    \/ Ack
    \/ HandlerAck
    \/ Cancel
    \/ Release

SpecPipeline == InitPipeline /\ [][NextPipeline]_vars

(***************************************************************************)
(* The pipeline of one camera with one person, track 1, who squats as in   *)
(* scenario S1: the frame that follows n fully processed frames shows      *)
(* sample n + 1, until MaxReps cycles are through.  Messages may also be   *)
(* malformed, and the classifier may be confident or not, as before.       *)
(***************************************************************************)
SquatPayloads == {BadPayload, Frame(1, S1Sample(frame_count + 1))}

ProcessSquats == ProcessWith(SquatPayloads, S1Length(MaxReps))

InitSquats ==
    /\ clock = COOLDOWN_SECONDS
    /\ ticks_per_s = 1
    /\ RepCounterInit
    /\ s1 = [k |-> 0, fed |-> 0, events |-> {}]
    /\ FormAnalyzerInit
    /\ s5 = [fed |-> 0, alerts |-> {}]
    /\ ExercisePipelineInit
    /\ ServiceInit
    /\ MoreInit
    /\ histories = [t \in FormTracks |-> WINDOW]

NextSquats ==
    \/ ReadGroup
    \/ ProcessSquats
    \/ FlushSession
    \/ FlushTrack
    \/ FlushSet
    \/ Commit
    \/ RepCounterStep
    \/ PublishRep
    \/ PersistRep
    \/ FormAnalyzerStep
    \/ PublishAlert
    \/ Ack
    \/ HandlerAck
    \/ Cancel
    \/ Release

SpecSquats == InitSquats /\ [][NextSquats]_vars

(***************************************************************************)
(* keypoint_utils.smooth_signal called with any deque of up to MaxValues   *)
(* samples.                                                                *)
(***************************************************************************)
SmoothSamples == {0, 95, 158, 165}

SeqsUpTo(S, n) == UNION {[1..k -> S] : k \in 0..n}

\* nothing has been called yet
InitPure == InitRep

not_svc_vars == <<clock, ticks_per_s, rep_vars, form_vars, pipe_vars, more_vars>>

\* keypoint_utils.py 38-47: smooth_signal(values), window = 5; the result
\* is kept doubled.  The calls of a pure function do not depend on each
\* other: a behaviour makes one.
SmoothSignal ==
    /\ fn.op = "none"
    /\ \E values \in SeqsUpTo(SmoothSamples, MaxValues) :
          fn' = [op |-> "smooth_signal", values |-> values,
                 result2 |-> smooth_signal2(values)]
    /\ UNCHANGED <<server, workers, main, not_svc_vars>>

NextSmooth == SmoothSignal

SpecSmooth == InitPure /\ [][NextSmooth]_vars

(***************************************************************************)
(* keypoint_utils.get_joint_angle called with any list of up to            *)
(* MaxKeypoints keypoints and any three indices.  A keypoint is its        *)
(* visibility in hundredths; the angle that compute_angle returns is       *)
(* represented by the places of the list it was computed from.             *)
(***************************************************************************)
VIS_THRESHOLD == 30
Visibilities == {VIS_THRESHOLD - 1, VIS_THRESHOLD}
Indices == (-1)..MaxKeypoints

\* the largest of three integers
max(a, b, c) ==
    IF a >= b /\ a >= c THEN a ELSE IF b >= c THEN b ELSE c

\* list[idx] of Python: the place of the list (1-based) that idx names, 0
\* when the subscript raises IndexError; a negative idx counts from the end
Place(list, idx) ==
    IF 0 <= idx /\ idx < Len(list) THEN idx + 1
    ELSE IF idx < 0 /\ -idx <= Len(list) THEN Len(list) + idx + 1
    ELSE 0

\* keypoint_utils.py 50-65
get_joint_angle(keypoints, a_idx, b_idx, c_idx) ==
    IF max(a_idx, b_idx, c_idx) >= Len(keypoints)
    THEN [kind |-> "None"]
    ELSE LET pa == Place(keypoints, a_idx)
             pb == Place(keypoints, b_idx)
             pc3 == Place(keypoints, c_idx)
         IN  IF pa = 0 \/ pb = 0 \/ pc3 = 0
             THEN [kind |-> "IndexError"]
             ELSE IF \/ keypoints[pa] < VIS_THRESHOLD
                     \/ keypoints[pb] < VIS_THRESHOLD
                     \/ keypoints[pc3] < VIS_THRESHOLD
                  THEN [kind |-> "None"]
                  ELSE [kind |-> "degrees", of |-> <<pa, pb, pc3>>]

GetJointAngle ==
    /\ fn.op = "none"
    /\ \E keypoints \in SeqsUpTo(Visibilities, MaxKeypoints),
          a_idx \in Indices, b_idx \in Indices, c_idx \in Indices :
          fn' = [op |-> "get_joint_angle", keypoints |-> keypoints,
                 idx |-> <<a_idx, b_idx, c_idx>>,
                 result |-> get_joint_angle(keypoints, a_idx, b_idx, c_idx)]
    /\ UNCHANGED <<server, workers, main, not_svc_vars>>

NextJointAngle == GetJointAngle

SpecJointAngle == InitPure /\ [][NextJointAngle]_vars

(***************************************************************************)
(* HeuristicClassifier.update for one track, called once on any history    *)
(* out of ClassifierInputs with any frame.  np.std of a deque is           *)
(* sqrt(V) / n with V = n * sum(x^2) - sum(x)^2; the comparisons of the    *)
(* code are made on V and n, which is exact, and the confidence is         *)
(* computed from the std-devs carried in units of 0.0001 degree.           *)
(* data/exercises.yaml, which fixes the order of the exercises in the      *)
(* registry, is not part of the sources: the order is an input.            *)
(***************************************************************************)
MIN_VARIANCE == 5
ExerciseNames == {"squat", "push_up", "bicep_curl", "lateral_raise"}

\* classifier.py 28-33
EXERCISE_JOINTSApart ==
    [name \in ExerciseNames |->
        CASE name = "squat" -> "11-13-15"
          [] name = "push_up" -> "5-7-9"
          [] name = "bicep_curl" -> "11-7-9"
          [] name = "lateral_raise" -> "11-5-7"]
EXERCISE_JOINTS ==
    [name \in ExerciseNames |->
        CASE name = "squat" -> "11-13-15"
          [] name = "push_up" -> "5-7-9"
          [] name = "bicep_curl" -> "5-7-9"
          [] name = "lateral_raise" -> "11-5-7"]

ClassifierJoints == {EXERCISE_JOINTS[name] : name \in ExerciseNames}

\* registry.list_exercises(): the keys in the order of the YAML file
SquatFirst == <<"squat", "push_up", "bicep_curl", "lateral_raise">>
RegistryOrders ==
    {SquatFirst, <<"lateral_raise", "bicep_curl", "push_up", "squat">>}

\* deque(maxlen=_WINDOW).append
AppendWindow(angles, angle) ==
    LET h == Append(angles, angle)
    IN  IF Len(h) > WINDOW THEN Tail(h) ELSE h

RECURSIVE Sum(_)
Sum(seq) == IF seq = << >> THEN 0 ELSE Head(seq) + Sum(Tail(seq))

Squares(seq) == [i \in 1..Len(seq) |-> seq[i] * seq[i]]

\* the largest r in lo..hi with r * r <= x
RECURSIVE SqrtBetween(_, _, _)
SqrtBetween(x, lo, hi) ==
    IF lo = hi THEN lo
    ELSE LET mid == (lo + hi + 1) \div 2
         IN  IF mid * mid <= x THEN SqrtBetween(x, mid, hi)
             ELSE SqrtBetween(x, lo, mid - 1)

Isqrt(x) == SqrtBetween(x, 0, 46340)

\* np.std(list(angles)) as the pair (V, n): the std-dev is sqrt(V) / n
std(angles) ==
    [V |-> Len(angles) * Sum(Squares(angles)) - Sum(angles) * Sum(angles),
     n |-> Len(angles)]

\* the float 0.0
ZeroStd == [V |-> 0, n |-> 1]

\* a < b, a > 1.5 * b and a < _MIN_VARIANCE for std-devs
StdLess(a, b) == a.V * b.n * b.n < b.V * a.n * a.n
StdSignificantlyHigher(a, b) == 4 * a.V * b.n * b.n > 9 * b.V * a.n * a.n
StdBelowMin(a) == a.V < MIN_VARIANCE * MIN_VARIANCE * a.n * a.n

\* the std-dev in units of 0.0001 degree
Std4(a) == (Isqrt(a.V * 10000) * 100) \div a.n

\* max(xs) - min(xs) < 20 for the squat history, 0 for an empty one
LowerBodyStill(squat_hist) ==
    \A i \in 1..Len(squat_hist) : \A j \in 1..Len(squat_hist) :
        squat_hist[i] - squat_hist[j] < 20

\* classifier.py 113-142
disambiguatePreferPushUp(variances, history) ==
    IF LowerBodyStill(history["squat"])
    THEN [variances EXCEPT !["bicep_curl"] = ZeroStd]
    ELSE variances
disambiguate_elbow_exercises(variances, history) ==
    IF LowerBodyStill(history["squat"])
    THEN IF StdSignificantlyHigher(variances["push_up"], variances["bicep_curl"])
         THEN [variances EXCEPT !["bicep_curl"] = ZeroStd]
         ELSE [variances EXCEPT !["push_up"] = ZeroStd]
    ELSE variances

\* classifier.py 85-91: the std-dev of every history of at least 15 samples
Variances(history) ==
    [name \in {x \in DOMAIN history : Len(history[x]) >= WINDOW \div 2} |->
        std(history[name])]

\* classifier.py 98-99
Disambiguated(history) ==
    IF {"push_up", "bicep_curl"} \subseteq DOMAIN Variances(history)
    THEN disambiguate_elbow_exercises(Variances(history), history)
    ELSE Variances(history)

\* max(variances, key=variances.get): the first key of the dict, which is
\* in the order of names, that no other key exceeds
BestAny(variances, names) ==
    names[CHOOSE i \in 1..Len(names) : names[i] \in DOMAIN variances]
Best(variances, names) ==
    names[CHOOSE i \in 1..Len(names) :
            /\ names[i] \in DOMAIN variances
            /\ \A x \in DOMAIN variances : ~StdLess(variances[names[i]], variances[x])
            /\ \A j \in 1..(i - 1) :
                  names[j] \in DOMAIN variances
                  => StdLess(variances[names[j]], variances[names[i]])]

Unknown == [exercise |-> "unknown", confidence |-> 0]

\* classifier.py 107-111: min(1.0, best_std / total) rounded to hundredths
Confidence(variances, best) ==
    LET total == Sum([i \in 1..4 |->
                        LET name == SquatFirst[i]
                        IN  IF name \in DOMAIN variances
                            THEN Std4(variances[name]) ELSE 0])
        best_std == Std4(variances[best])
        total_or_1 == IF total = 0 THEN 10000 ELSE total
        ratio == (200 * best_std + total_or_1) \div (2 * total_or_1)
    IN  IF ratio > 100 THEN 100 ELSE ratio

\* classifier.py 82-111
classify_history(history, names) ==
    LET variances == Disambiguated(history)
    IN  IF DOMAIN variances = {} THEN Unknown
        ELSE LET best == Best(variances, names)
             IN  IF StdBelowMin(variances[best]) THEN Unknown
                 ELSE [exercise |-> best,
                       confidence |-> Confidence(variances, best)]

\* classifier.py 72-80: the histories after the frame
Recorded(history, angles) ==
    [name \in ExerciseNames |->
        IF angles[EXERCISE_JOINTS[name]] = NoAngle THEN history[name]
        ELSE AppendWindow(history[name], angles[EXERCISE_JOINTS[name]])]

\* a history of n samples that swing between base and base + swing
Swinging(n, base, swing) ==
    [i \in 1..n |-> IF i % 2 = 0 THEN base + swing ELSE base]

ClassifierLengths == {WINDOW \div 2 - 2, WINDOW \div 2 - 1, WINDOW}
Swings == {0, 8, 10, 18, 20, 28}
RestAngle == 90

\* the histories of a track some frames have left behind: one series per
\* joint, so the push_up and the bicep_curl history are the same
ClassifierInputs ==
    { [name \in ExerciseNames |->
          CASE name = "squat" -> Swinging(n1, RestAngle, d1)
            [] name = "lateral_raise" -> Swinging(n3, RestAngle, d3)
            [] OTHER -> Swinging(n2, RestAngle, d2)] :
      n1 \in ClassifierLengths, d1 \in Swings,
      n2 \in ClassifierLengths, d2 \in Swings,
      n3 \in {WINDOW \div 2 - 1, WINDOW}, d3 \in {0, 10} }

ClassifierFrames == [ClassifierJoints -> {NoAngle, RestAngle}]

\* classifier.py 55-80: update(track_id, keypoints)
ClassifierUpdate ==
    /\ fn.op = "none"
    /\ \E history \in ClassifierInputs, angles \in ClassifierFrames,
          names \in RegistryOrders :
          fn' = [op |-> "classifier_update", names |-> names,
                 history |-> Recorded(history, angles),
                 result |-> classify_history(Recorded(history, angles), names)]
    /\ UNCHANGED <<server, workers, main, not_svc_vars>>

NextClassifier == ClassifierUpdate

SpecClassifier == InitPure /\ [][NextClassifier]_vars

(***************************************************************************)
(* RepCounter fed frames back to back, the angle dropping to 0 as well.    *)
(***************************************************************************)
LockAngles == {0, 95, 165}

UpdateLock == UpdateWith(LockAngles, {0}, {0}, {0})

NextLock == UpdateLock

SpecLock == InitRep /\ [][NextLock]_vars

(***************************************************************************)
(* The squatting person of scenario S1 again, with the clock running: in   *)
(* SpecIdleSquats an event comes at once or after the person was away for  *)
(* more than set_idle_timeout_s; in SpecQuietSquats the events never stop, *)
(* each comes at most one tick after the message before it.                *)
(***************************************************************************)
ProcessAfterIdle ==
    ProcessAfter(SquatPayloads, S1Length(MaxReps), {0, set_idle_timeout_s + 1})

NextIdleSquats ==
    \/ ReadGroup
    \/ ProcessAfterIdle
    \/ FlushSession
    \/ FlushTrack
    \/ FlushSet
    \/ Commit
    \/ RepCounterStep
    \/ PublishRep
    \/ PersistRep
    \/ FormAnalyzerStep
    \/ PublishAlert
    \/ Ack
    \/ HandlerAck
    \/ Cancel
    \/ Release

SpecIdleSquats == InitSquats /\ [][NextIdleSquats]_vars

ProcessQuiet == ProcessAfter(SquatPayloads, S1Length(MaxReps), {0, 1})

NextQuietSquats ==
    \/ ReadGroup
    \/ ProcessQuiet
    \/ FlushSession
    \/ FlushTrack
    \/ FlushSet
    \/ Commit
    \/ RepCounterStep
    \/ PublishRep
    \/ PersistRep
    \/ FormAnalyzerStep
    \/ PublishAlert
    \/ Ack
    \/ HandlerAck
    \/ Cancel
    \/ Release

SpecQuietSquats == InitSquats /\ [][NextQuietSquats]_vars

(***************************************************************************)
(* main.run with the pipelines of all cameras, started up to MaxStarts     *)
(* times against the same Redis server, each stream receiving up to        *)
(* MaxStream perception events.                                            *)
(***************************************************************************)
Running == {"ensure", "read", "process"}

\* main.py 31-49 under asyncio.run: gather makes a task of every p.run(redis)
Start ==
    /\ main.pc \in {"none", "exited"}
    /\ main.starts < MaxStarts
    /\ main' = [main EXCEPT !.pc = "gather", !.starts = @ + 1, !.why = "none"]
    /\ workers' = [c \in Cameras |->
                     [pc |-> "ensure", batch |-> << >>, exc |-> << >>]]
    /\ UNCHANGED <<fn, server, not_svc_vars>>

\* the perception service publishes an event of the camera (publisher.py 60)
XAdd(c) ==
    /\ server[c].xlen < MaxStream
    /\ server' = [server EXCEPT ![c].xlen = @ + 1]
    /\ UNCHANGED <<fn, workers, main, not_svc_vars>>

\* the task of camera c leaves run() by the exception exc
Raise(c, exc) == [workers EXCEPT ![c].pc = "raised", ![c].exc = exc]

\* publisher.py 64-75, awaited at pipeline.py 86: the server executes the
\* command, or the connection is lost
EnsureConsumerGroup(c) ==
    /\ main.pc \in {"gather", "closing"}
    /\ workers[c].pc = "ensure"
    /\ \E lost \in BOOLEAN :
          LET r == IF lost THEN [stream |-> server[c], exc |-> ConnectionLost]
                   ELSE xgroup_create(server[c])
          IN  /\ server' = [server EXCEPT ![c] = r.stream]
              /\ workers' = IF r.exc # << >> /\ Reraised(r.exc)
                            THEN Raise(c, r.exc)
                            ELSE [workers EXCEPT ![c].pc = "read"]
    /\ UNCHANGED <<fn, main, not_svc_vars>>

\* pipeline.py 93-100: the blocking read returns the new entries, or its
\* exception leaves run()
Read(c) ==
    /\ main.pc \in {"gather", "closing"}
    /\ workers[c].pc = "read"
    /\ \E lost \in BOOLEAN :
          IF lost
          THEN /\ workers' = Raise(c, ConnectionLost)
               /\ server' = server
          ELSE LET r == xreadgroup(server[c], read_batch)
               IN  /\ r.entries # << >>
                   /\ server' = [server EXCEPT ![c] = r.stream]
                   /\ workers' = [workers EXCEPT ![c].pc = "process",
                                                 ![c].batch = r.entries]
    /\ UNCHANGED <<fn, main, not_svc_vars>>

\* pipeline.py 101-111: _process, or the handler of run() after it, ends
\* with the acknowledgement of the message; the exception of the handler's
\* ack leaves run()
Handle(c) ==
    /\ main.pc \in {"gather", "closing"}
    /\ workers[c].pc = "process"
    /\ main' = [main EXCEPT !.owed[c] = @ \ {Head(workers[c].batch)}]
    /\ \E lost \in BOOLEAN :
          IF lost
          THEN /\ workers' = Raise(c, ConnectionLost)
               /\ server' = server
          ELSE /\ server' = [server EXCEPT ![c] = xack(@, Head(workers[c].batch))]
               /\ workers' = [workers EXCEPT
                                ![c].batch = Tail(@),
                                ![c].pc = IF Len(workers[c].batch) > 1
                                          THEN "process" ELSE "read"]
    /\ UNCHANGED <<fn, not_svc_vars>>

\* task.cancel(): a task that has not left run() ends by CancelledError
Cancelled(w) == IF w.pc \in Running THEN [w EXCEPT !.pc = "cancelled"] ELSE w

\* main.py 40-43, 50-51: SIGTERM or SIGINT cancels every task; of a task
\* that awaits the ack of its message the XACK may have been executed
Signal ==
    /\ main.pc = "gather"
    /\ \E executed \in [Cameras -> BOOLEAN] :
          LET unacked(c) ==
                  IF workers[c].pc = "process" /\ executed[c]
                  THEN Ids(Tail(workers[c].batch)) ELSE Ids(workers[c].batch)
          IN  /\ \A c \in Cameras : executed[c] => workers[c].pc = "process"
              /\ server' = [c \in Cameras |->
                              IF executed[c]
                              THEN xack(server[c], Head(workers[c].batch))
                              ELSE server[c]]
              /\ main' = [main EXCEPT !.pc = "closing", !.why = "signal",
                                      !.owed = [c \in Cameras |->
                                                  IF workers[c].pc \in Running
                                                  THEN unacked(c) ELSE @[c]]]
    /\ workers' = [c \in Cameras |-> Cancelled(workers[c])]
    /\ UNCHANGED <<fn, not_svc_vars>>

\* main.py 49: gather passes the exception of a pipeline on to main.run
GatherRaises ==
    /\ main.pc = "gather"
    /\ \E c \in Cameras : workers[c].pc = "raised"
    /\ main' = [main EXCEPT !.pc = "closing", !.why = "error"]
    /\ UNCHANGED <<fn, server, workers, not_svc_vars>>

\* main.py 52-54 and 58: the client is closed and main.run ends; asyncio.run
\* cancels the tasks that are left and closes the loop
Close ==
    /\ main.pc = "closing"
    /\ main' = [main EXCEPT !.pc = "exited"]
    /\ workers' = [c \in Cameras |-> Cancelled(workers[c])]
    /\ UNCHANGED <<fn, server, not_svc_vars>>

NextService ==
    \/ Start
    \/ \E c \in Cameras : XAdd(c)
    \/ \E c \in Cameras : EnsureConsumerGroup(c)
    \/ \E c \in Cameras : Read(c)
    \/ \E c \in Cameras : Handle(c)
    \/ Signal
    \/ GatherRaises
    \/ Close

SpecService == InitRep /\ [][NextService]_vars

(***************************************************************************)
(* One RepCounter serving two tracks: frames of either track in any        *)
(* order, with or without a defined angle, back to back or after a gap     *)
(* that exceeds the timeout; a set receives up to MaxSamples angles.       *)
(***************************************************************************)
TwoTracks == {1, 2}

UpdateTwoTracks ==
    /\ UpdateAmong(TwoTracks, CoarseAngles, {0}, {0, set_idle_timeout_s + 1}, {0})
    /\ \A t \in DOMAIN tracks' : Len(tracks'[t].angle_history) <= MaxSamples

NextTwoTracks == UpdateTwoTracks

SpecTwoTracks == InitRep /\ [][NextTwoTracks]_vars

(***************************************************************************)
(* A RepCounter constructed for any of three exercise definitions: the     *)
(* squat (up_angle above down_angle), an exercise with up_angle below      *)
(* down_angle as the bicep curl, and one whose two thresholds coincide.    *)
(* The thresholds of the last two are those of a registry file, which is   *)
(* an input of the program.  The definition a counter was constructed      *)
(* with shows in the exercise_type of its TrackStates.                     *)
(***************************************************************************)
Definitions ==
    { SquatDef,
      [name |-> "bicep_curl", up_angle |-> 50, down_angle |-> 140],
      [name |-> "lateral_raise", up_angle |-> 90, down_angle |-> 90] }

ExerciseAngles == {45, 90, 165}

UpdateAnyExercise ==
    \E def \in Definitions, track_id \in Tracks,
       angle \in ExerciseAngles \cup {NoAngle} :
        /\ \A t \in DOMAIN tracks : tracks[t].exercise_type = def.name
        /\ updateFor(def, track_id, angle, 0, clock, clock)
        /\ tracks'[track_id].rep_count <= MaxReps
        /\ UNCHANGED <<s1, ticks_per_s, form_vars, pipe_vars, svc_vars, more_vars>>

NextExercises == UpdateAnyExercise

SpecExercises == InitRep /\ [][NextExercises]_vars

(***************************************************************************)
(* One HeuristicClassifier fed the frames of a track from its first frame  *)
(* on, past the window by MaxSlides frames.  The registry is an input: the *)
(* four exercises in either order, the four and a further one, or three of *)
(* them.  In a frame the upper body is visible, the legs are or are not;   *)
(* the knee and the elbow swing by an amount the scenario fixes.  fn holds *)
(* the classifier's histories of the track and the scenario.               *)
(***************************************************************************)
\* the keys of _EXERCISE_JOINTS in the order of the dict (classifier.py 28-33)
ExerciseOrder == <<"squat", "push_up", "bicep_curl", "lateral_raise">>

Registries ==
    RegistryOrders \cup
    { <<"squat", "push_up", "bicep_curl", "lateral_raise", "plank">>,
      <<"squat", "push_up", "bicep_curl">> }

NamesOf(names) == {names[i] : i \in 1..Len(names)}

\* classifier.py 66-70: the histories of a track seen for the first time
NewHistories(names) == [name \in NamesOf(names) |-> << >>]

\* classifier.py 75-78: the loop over _EXERCISE_JOINTS from entry i on; a
\* name that is no key of the track's histories raises KeyError
RECURSIVE record_loop(_, _, _)
record_loop(i, history, angles) ==
    IF i > Len(ExerciseOrder) THEN [history |-> history, exc |-> "none"]
    ELSE
    LET name == ExerciseOrder[i]
        angle == angles[EXERCISE_JOINTS[name]]
    IN  IF angle = NoAngle THEN record_loop(i + 1, history, angles)
        ELSE IF name \notin DOMAIN history
        THEN [history |-> history, exc |-> "KeyError"]
        ELSE record_loop(i + 1,
                         [history EXCEPT ![name] = AppendWindow(@, angle)],
                         angles)

\* the swing of the knee and of the elbow in a scenario
SwingChoices == [lower : {0, 18, 20}, elbow : {0, 10, 28}]

\* the joint angles of frame number n of the scenario, the legs having
\* been visible in legs_seen frames before
FrameOf(swing, legs_visible, n, legs_seen) ==
    [j \in ClassifierJoints |->
        IF j = "11-13-15"
        THEN IF ~legs_visible THEN NoAngle
             ELSE IF legs_seen % 2 = 1 THEN RestAngle + swing.lower ELSE RestAngle
        ELSE LET d == IF j = "5-7-9" THEN swing.elbow ELSE 0
             IN  IF n % 2 = 0 THEN RestAngle + d ELSE RestAngle]

\* classifier.py 55-80: update(track_id, keypoints), frame after frame
ClassifierFrame ==
    /\ IF fn.op = "none" THEN TRUE
       ELSE fn.exc = "none" /\ fn.frames < WINDOW + MaxSlides
    /\ \E names \in Registries, swing \in SwingChoices, legs_visible \in BOOLEAN :
          /\ fn.op # "none" => (names = fn.names /\ swing = fn.swing)
          /\ LET n == IF fn.op = "none" THEN 1 ELSE fn.frames + 1
                 before == IF fn.op = "none" THEN NewHistories(names)
                           ELSE fn.history
                 angles == FrameOf(swing, legs_visible, n, Len(before["squat"]))
                 r == record_loop(1, before, angles)
             IN  fn' = [op |-> "classifier_run", names |-> names,
                        swing |-> swing, frames |-> n, angles |-> angles,
                        before |-> before,
                        history |-> r.history, exc |-> r.exc,
                        result |-> IF r.exc = "none"
                                   THEN classify_history(r.history, names)
                                   ELSE Unknown]
    /\ UNCHANGED <<server, workers, main, not_svc_vars>>

NextClassifierRun == ClassifierFrame

SpecClassifierRun == InitPure /\ [][NextClassifierRun]_vars

(***************************************************************************)
(* CameraReader.run (camera_reader.py 77-96): the reconnect loop of one    *)
(* reader thread.  _stream_loop is taken by its outcome, a clean return or *)
(* an exception; stop_event is set by the signal handler of main.py.       *)
(***************************************************************************)
next_backoffUncapped(backoff) == backoff * 2
\* camera_reader.py 94: min(backoff * 2, _BACKOFF_MAX)
next_backoff(backoff) ==
    IF backoff * 2 < BACKOFF_MAX THEN backoff * 2 ELSE BACKOFF_MAX

\* camera_reader.py 80-82: the loop condition, then the call of _stream_loop
EnterLoop ==
    /\ reader.pc = "loop"
    /\ IF reader.stop
       THEN reader' = [reader EXCEPT !.pc = "returned"]
       ELSE /\ reader.calls < MaxCalls
            /\ reader' = [reader EXCEPT !.pc = "streaming", !.calls = @ + 1]
    /\ UNCHANGED <<clock, ticks_per_s, rep_vars, form_vars, pipe_vars, svc_vars,
                   replicas, store, handler>>

\* camera_reader.py 83: _stream_loop returned, the backoff starts over
StreamLoopReturns ==
    /\ reader.pc = "streaming"
    /\ reader' = [reader EXCEPT !.pc = "loop", !.backoff = BACKOFF_BASE,
                                !.failures = 0]
    /\ UNCHANGED <<clock, ticks_per_s, rep_vars, form_vars, pipe_vars, svc_vars,
                   replicas, store, handler>>

\* camera_reader.py 84-93: _stream_loop raised; run leaves the loop when the
\* stop was requested, and sleeps for the backoff otherwise
StreamLoopRaises ==
    /\ reader.pc = "streaming"
    /\ reader.failures < MaxFailures
    /\ IF reader.stop
       THEN reader' = [reader EXCEPT !.pc = "returned"]
       ELSE reader' = [reader EXCEPT !.pc = "sleeping", !.slept = reader.backoff,
                                     !.failures = @ + 1]
    /\ UNCHANGED <<clock, ticks_per_s, rep_vars, form_vars, pipe_vars, svc_vars,
                   replicas, store, handler>>

\* camera_reader.py 93-94: time.sleep is over, the backoff is doubled
Wake ==
    /\ reader.pc = "sleeping"
    /\ reader' = [reader EXCEPT !.pc = "loop",
                                !.backoff = next_backoff(reader.backoff)]
    /\ UNCHANGED <<clock, ticks_per_s, rep_vars, form_vars, pipe_vars, svc_vars,
                   replicas, store, handler>>

\* main.py 31-33: the signal handler sets stop_event
SetStop ==
    /\ ~reader.stop
    /\ reader.pc # "returned"
    /\ reader' = [reader EXCEPT !.stop = TRUE]
    /\ UNCHANGED <<clock, ticks_per_s, rep_vars, form_vars, pipe_vars, svc_vars,
                   replicas, store, handler>>

NextReader ==
    \/ EnterLoop
    \/ StreamLoopReturns
    \/ StreamLoopRaises
    \/ Wake
    \/ SetStop

SpecReader == InitRep /\ [][NextReader]_vars

\* the thread of run() is scheduled, time.sleep ends, and _stream_loop, which
\* looks at stop_event for every packet (camera_reader.py 136-141), ends once
\* the stop was requested
ReaderFairness ==
    /\ WF_vars(EnterLoop)
    /\ WF_vars(Wake)
    /\ WF_vars((StreamLoopReturns \/ StreamLoopRaises) /\ reader.stop)

SpecReaderFair == InitRep /\ [][NextReader]_vars /\ ReaderFairness

(***************************************************************************)
(* FormAlertHandler (form_alert_handler.py): one message of the            *)
(* form_alerts stream per step, _handle and the ack of the finally clause. *)
(* The LLM client returns a text or None and never raises (llm_client.py   *)
(* 30-59); the dispatcher may raise.                                       *)
(***************************************************************************)
GuidanceTracks == {1, 2}

\* model_validate_json of the message: a ValidationError, or an alert
BadAlert == [ok |-> FALSE]
Alert(track_id) == [ok |-> TRUE, track_id |-> track_id]
Alerts == {BadAlert} \cup {Alert(t) : t \in GuidanceTracks}

\* dict.get(key, default)
get(dict, key, default) == IF key \in DOMAIN dict THEN dict[key] ELSE default

\* form_alert_handler.py 74: the alert comes too soon after the last guidance
rate_limited(h, track_id, now) ==
    now - get(h.last_sent, track_id, 0) < rate_limit_seconds

\* form_alert_handler.py 68-104: the handler after _handle(msg_data) at time
\* now; guidance_text is what generate_guidance returns, if it is called, and
\* raises whether dispatch then fails
handle(h, msg_data, now, guidance_text, raises) ==
    LET h0 == [h EXCEPT !.now = now, !.llm_called = 0]
    IN  IF ~msg_data.ok THEN h0
        ELSE
        LET track_id == msg_data.track_id
        IN  IF rate_limited(h, track_id, now) THEN h0
            ELSE
            LET h1 == [h0 EXCEPT !.llm_called = track_id,
                                 !.last_call = Put(@, track_id, now)]
            IN  IF guidance_text = "None" THEN h1
                ELSE [h1 EXCEPT !.last_sent = Put(@, track_id, now),
                                !.dispatched = IF raises THEN @ ELSE @ + 1]

\* form_alert_handler.py 59-66: the next message of the batch is handled and
\* acknowledged, whatever _handle did
HandleAlert ==
    \E msg_data \in Alerts, gap \in 0..rate_limit_seconds,
       guidance_text \in {"text", "None"}, raises \in BOOLEAN :
        /\ handler.consumed < MaxAlerts
        /\ handler.now + gap <= MaxMonotonic
        /\ handler' = [handle(handler, msg_data, handler.now + gap, guidance_text,
                                raises)
                         EXCEPT !.consumed = @ + 1, !.acked = @ + 1]
        /\ UNCHANGED <<clock, ticks_per_s, rep_vars, form_vars, pipe_vars, svc_vars,
                       replicas, store, reader>>

NextGuidance == HandleAlert

SpecGuidance == InitRep /\ [][NextGuidance]_vars

(***************************************************************************)
(* Horizontal scale-out: two ExercisePipeline processes with the consumer  *)
(* names of Consumers read the stream of one camera in the group           *)
(* exercise-workers.  XREADGROUP gives each message to one of them; the    *)
(* process handles it to the end (pipeline.py 113-202) with the database   *)
(* and the bus working, one message per step.  The form analyzer is left   *)
(* out, as it touches neither the rows nor the rep events.                 *)
(***************************************************************************)
\* pipeline.py 204-257: the set id returned, the rows of the database and
\* the dict _track_set_ids of the process after _ensure_db_records
ensure_db_records(p, rws, track_id, exercise_name) ==
    IF track_id \in DOMAIN p.track_set_ids
    THEN [set_id |-> p.track_set_ids[track_id], rows |-> rws,
          track_set_ids |-> p.track_set_ids]
    ELSE
    LET session == uuid4(rws)
        r1 == [rws EXCEPT !.gym_sessions = @ \cup {GymSession(session, track_id)}]
        track == uuid4(r1)
        r2 == [r1 EXCEPT !.tracks = @ \cup {Track(track, track_id)}]
        ex_set == uuid4(r2)
        r3 == [r2 EXCEPT !.exercise_sets =
                 @ \cup {ExerciseSet(ex_set, session, track, exercise_name)}]
    IN  [set_id |-> str(ex_set), rows |-> r3,
         track_set_ids |-> Put(p.track_set_ids, track_id, str(ex_set))]

\* rep_counter.py 59-139 on the RepCounter of the process p
update_of(p, track_id, angle, timestamp_ns) ==
    LET trk1 == get_or_create(p.tracks, track_id, clock, p.next_set_id)
        st == [trk1[track_id] EXCEPT !.last_seen_at = clock]
        r == processFor(SquatDef, st, track_id, angle, timestamp_ns)
    IN  [tracks |-> [trk1 EXCEPT ![track_id] = r.state],
         next_set_id |-> IF Constructs(p.tracks, track_id, clock)
                         THEN p.next_set_id + 1 ELSE p.next_set_id,
         event |-> r.event]

\* pipeline.py 113-202: the process p and the store after _process of the
\* message m, which the classifier takes as c
process_message(p, s, m, c) ==
    LET p0 == [p EXCEPT !.hist = classifier_update(@, m.track_id)]
    IN  IF Skipped(c) THEN [p |-> p0, s |-> s]
        ELSE
        LET e == ensure_db_records(p0, s.rows, m.track_id, c.exercise)
            u == update_of(p0, m.track_id, m.angles[primary_joint], 0)
            p1 == [p0 EXCEPT !.track_set_ids = e.track_set_ids,
                             !.tracks = u.tracks,
                             !.next_set_id = u.next_set_id,
                             !.seen = @ + 1]
        IN  IF u.event = NoEvent
            THEN [p |-> p1, s |-> [s EXCEPT !.rows = e.rows]]
            ELSE [p |-> p1,
                  s |-> [s EXCEPT
                           !.rep_counted = Append(@, Rewrap(u.event, e.set_id)),
                           !.rows = [e.rows EXCEPT !.rep_events =
                                       @ \cup {RepEvent(u.event, e.set_id)}]]]

\* publisher.py 90-110 and pipeline.py 91-111: the next message of the
\* stream goes to one consumer of the group, which processes and acks it
Deliver ==
    \E c \in Consumers, angle \in CoarseAngles :
        LET m == Frame(1, angle)
            n == classifier_update(replicas[c].hist, m.track_id)[m.track_id]
        IN  \E cl \in classify(n) :
              /\ store.delivered < MaxDeliveries
              /\ IF Skipped(cl) THEN angle = 95 ELSE replicas[c].seen < MaxSeen
              /\ LET r == process_message(replicas[c], store, m, cl)
                 IN  /\ replicas' = [replicas EXCEPT ![c] = r.p]
                     /\ store' = [r.s EXCEPT !.delivered = @ + 1]
              /\ UNCHANGED <<clock, ticks_per_s, rep_vars, form_vars, pipe_vars,
                             svc_vars, handler, reader>>

NextScaleOut == Deliver

SpecScaleOut == InitRep /\ [][NextScaleOut]_vars

\* ---- end of the specifications ----

(***************************************************************************)
(* Scenario S5: the knee_cave check of track 1 is out of range (50 degrees) *)
(* in every frame, at 60 frames per second for 12 seconds; the clock ticks  *)
(* 60 times per second and shows any of S5Starts at the first frame.       *)
(* s5.alerts collects the numbers of the frames whose check returned a     *)
(* knee_cave alert.                                                        *)
(***************************************************************************)
S5Hz == 60
S5Seconds == 12
S5Frames == S5Hz * S5Seconds
S5Starts == {0, 1, 300, 598, 599, 600, 601, 6000}

S5Angles == [j \in Joints |-> IF j = "11-13-15" THEN 50 ELSE 100]

FeedS5 ==
    /\ s5.fed < S5Frames
    /\ check(1, S5Angles, "test-set-id", 3, s5.fed,
             IF s5.fed = 0 THEN clock ELSE clock + 1)
    /\ s5' = [fed |-> s5.fed + 1,
              alerts |-> IF "knee_cave" \in KeysOf(chk'.alerts)
                         THEN s5.alerts \cup {s5.fed + 1} ELSE s5.alerts]
    /\ UNCHANGED <<ticks_per_s, rep_vars, pipe_vars, svc_vars, more_vars>>

InitS5 ==
    /\ clock \in S5Starts
    /\ ticks_per_s = S5Hz
    /\ RepCounterInit
    /\ s1 = [k |-> 0, fed |-> 0, events |-> {}]
    /\ FormAnalyzerInit
    /\ ExercisePipelineInit
    /\ ServiceInit
    /\ MoreInit
    /\ HeuristicClassifierInit
    /\ s5 = [fed |-> 0, alerts |-> {}]

NextS5 == FeedS5

SpecS5 == InitS5 /\ [][NextS5]_vars

(***************************************************************************)
(* Properties of RepCounter                                                *)
(***************************************************************************)
\* the last call was an update of track t that returned a RepCountedEvent
Returned(t) ==
    /\ ret.op = "update"
    /\ ret.track_id = t
    /\ ret.event.kind = "RepCountedEvent"

\* C1: within one set (the set_id of the track is kept) rep_count never
\* decreases: a call either leaves it alone and returns no event for the
\* track, or adds exactly 1 and returns an event whose rep_number and
\* rep_count are the new rep_count; a track that enters a new set starts at
\* rep_count 0 without an event.  So the rep_numbers of a set are 1, 2, 3, ...
C1_RepCountStepsByOne ==
    [][ \A t \in DOMAIN tracks' :
          IF t \in DOMAIN tracks /\ tracks[t].set_id = tracks'[t].set_id
          THEN \/ /\ tracks'[t].rep_count = tracks[t].rep_count
                  /\ ~Returned(t)'
               \/ /\ tracks'[t].rep_count = tracks[t].rep_count + 1
                  /\ Returned(t)'
                  /\ ret'.event.rep_number = tracks'[t].rep_count
                  /\ ret'.event.rep_count = tracks'[t].rep_count
                  /\ ret'.event.exercise_set_id = tracks'[t].set_id
          ELSE /\ tracks'[t].rep_count = 0
               /\ ~Returned(t)'
      ]_vars

\* a second rep of a set has been returned, in a set that followed a rollover
C1_Witness ==
    \E t \in DOMAIN tracks :
        /\ Returned(t)
        /\ ret.event.rep_number = 2
        /\ tracks[t].set_id = 2

\* the phase a track has when the angle of a call is processed: that of its
\* TrackState, or unknown when the call creates or replaces the TrackState
PhaseBefore(t) ==
    IF t \in DOMAIN tracks /\ tracks[t].set_id = tracks'[t].set_id
    THEN tracks[t].phase ELSE "unknown"

CountBefore(t) ==
    IF t \in DOMAIN tracks /\ tracks[t].set_id = tracks'[t].set_id
    THEN tracks[t].rep_count ELSE 0

\* C2: an update returns a RepCountedEvent if and only if it changes the
\* phase of the track from down to up; every other change of phase
\* (unknown to up, unknown to down, up to down) returns no event and leaves
\* rep_count unchanged.
C2_EventIffDownToUp ==
    [][ ret'.op = "update" =>
          LET t == ret'.track_id
          IN  /\ ret'.event.kind = "RepCountedEvent"
                   <=> (PhaseBefore(t) = "down" /\ tracks'[t].phase = "up")
              /\ (/\ tracks'[t].phase # PhaseBefore(t)
                  /\ ~(PhaseBefore(t) = "down" /\ tracks'[t].phase = "up"))
                   => /\ ret'.event = NoEvent
                      /\ tracks'[t].rep_count = CountBefore(t)
      ]_vars

\* the first rep of a set was just returned and the phase is up
C2_Witness ==
    \E t \in DOMAIN tracks :
        /\ Returned(t)
        /\ tracks[t].phase = "up"
        /\ tracks[t].rep_count = 1
        /\ ret.event.phase = "up"

\* C3: a track is returned a RepCountedEvent only if the smoothed angle of
\* some update of that track satisfied the down condition (smoothed <= 100):
\* while it never did, whatever the angles and however many, no event.
C3_NoRepWithoutDown ==
    \A t \in Tracks : Returned(t) => down_seen[t]

\* a full history of samples at 158 and 165, phase up confirmed, never down
C3_Witness ==
    \E t \in DOMAIN tracks :
        /\ ~down_seen[t]
        /\ tracks[t].phase = "up"
        /\ Len(tracks[t].angle_history) = ANGLE_HISTORY
        /\ \E i, j \in 1..ANGLE_HISTORY :
              /\ tracks[t].angle_history[i] = 158
              /\ tracks[t].angle_history[j] = 165
        /\ tracks[t].rep_count = 0

\* C4: in scenario S1 no event is returned while priming or in a block of
\* 95, and every completed cycle has returned exactly one event, in its
\* block of 165; so after the k cycles exactly k events were returned.
C4_OneRepPerCycle ==
    /\ \A i \in s1.events : \E c \in 1..s1.k : i \in S1UpBlock(c)
    /\ \A c \in 1..s1.k :
          s1.fed >= S1Prime + 2 * S1Block * c
            => Cardinality(s1.events \cap S1UpBlock(c)) = 1
    /\ s1.fed = S1Length(s1.k) => Cardinality(s1.events) = s1.k

\* the five cycles of the test are fed and five events were returned
C4_Witness ==
    /\ s1.k = 5
    /\ s1.fed = S1Length(5)
    /\ Cardinality(s1.events) = 5
    /\ tracks[1].rep_count = 5

\* C5: an update of a track that has a TrackState replaces it by a fresh one
\* before the angle is processed when the clock read by the call is more than
\* set_idle_timeout_s past last_seen_at (new set_id, rep_count 0, phase
\* unknown, the history holding only this call's angle, phase_frame_count
\* counting only this call), and keeps set_id and the history when it is at
\* most set_idle_timeout_s past it.
C5_IdleRollover ==
    [][ (ret'.op = "update" /\ ret'.track_id \in DOMAIN tracks) =>
          LET t == ret'.track_id
              old == tracks[t]
              new == tracks'[t]
              angle == ret'.angle
          IN  IF clock' - old.last_seen_at > set_idle_timeout_s
              THEN /\ new.set_id = next_set_id
                   /\ new.set_id # old.set_id
                   /\ new.rep_count = 0
                   /\ new.phase = "unknown"
                   /\ new.angle_history =
                        IF angle = NoAngle THEN << >> ELSE <<angle>>
                   /\ new.phase_frame_count =
                        IF angle # NoAngle /\ Candidate(2 * angle) # "none"
                        THEN 1 ELSE 0
              ELSE /\ new.set_id = old.set_id
                   /\ new.rep_count >= old.rep_count
                   /\ new.angle_history =
                        IF angle = NoAngle THEN old.angle_history
                        ELSE Append7(old.angle_history, angle)
      ]_vars

\* an update has replaced the TrackState of a track that had one
C5_Witness ==
    /\ ret.op = "update"
    /\ ret.set_before # 0
    /\ ret.track_id \in DOMAIN tracks
    /\ tracks[ret.track_id].set_id # ret.set_before
    /\ ret.angle # NoAngle


(***************************************************************************)
(* Properties of FormAnalyzer                                              *)
(***************************************************************************)
Cooldown == COOLDOWN_SECONDS * ticks_per_s

\* C6: an alert that a check call returns for a (track_id, alert_key) for
\* which an alert was returned before comes at least 10 seconds of the
\* monotonic clock after that one.
C6_AlertsTenSecondsApart ==
    [][ \A k \in KeysOf(chk'.alerts) :
          obs[chk'.track_id][k].alert_count >= 1
            => clock' - obs[chk'.track_id][k].last_alert_at >= Cooldown
      ]_vars

\* a second alert of one (track_id, alert_key) has just been returned
C6_Witness ==
    \E k \in KeysOf(chk.alerts) :
        /\ obs[chk.track_id][k].alert_count = 2
        /\ obs[chk.track_id][k].last_alert_at = clock

\* C7: a check call returns an alert for a (track_id, alert_key) only if the
\* check was out of range (its angle defined) in that call and in the two
\* calls for that track before it; a track checked less than three times
\* has no out-of-range call before its first, so it gets no alert.
C7_AlertOnlyAfterThreeFrames ==
    \A k \in KeysOf(chk.alerts) :
        obs[chk.track_id][k].recent = <<TRUE, TRUE, TRUE>>

\* track 2 has just been alerted while track 1 is in the middle of a debounce
C7_Witness ==
    /\ chk.track_id = 2
    /\ "knee_cave" \in KeysOf(chk.alerts)
    /\ states[1]["knee_cave"].consecutive_frames = 2
    /\ obs[2]["shallow_depth"].recent = <<TRUE, FALSE, TRUE>>

\* C8: once the check of a (track_id, alert_key) has been out of range in
\* three consecutive calls, an alert for it has been returned, whatever the
\* monotonic clock shows.
C8_AlertByThirdFrame ==
    \A t \in FormTracks, k \in AlertKeys :
        states[t][k].consecutive_frames >= DEBOUNCE_FRAMES
          => obs[t][k].alert_count >= 1

\* the frames of S5: frame i is fed i - 1 ticks after the first
S5Window(from, to) == {i \in s5.alerts : from <= i /\ i <= to}

\* C9: in scenario S5 consecutive_frames counts every frame (firing does not
\* reset it); no alert comes before the debounce completes in frame 3 and
\* exactly one in the 10 seconds from then on; 10 seconds after an alert the
\* next one comes, and none in between; at most two alerts exist by 11 s.
C9_CooldownAtSixtyHertz ==
    /\ states[1]["knee_cave"].consecutive_frames = s5.fed
    /\ S5Window(1, DEBOUNCE_FRAMES - 1) = {}
    /\ s5.fed >= DEBOUNCE_FRAMES + Cooldown - 1
         => Cardinality(S5Window(DEBOUNCE_FRAMES, DEBOUNCE_FRAMES + Cooldown - 1)) = 1
    /\ \A i \in s5.alerts :
          /\ S5Window(i + 1, i + Cooldown - 1) = {}
          /\ s5.fed >= i + Cooldown => i + Cooldown \in s5.alerts
    /\ Cardinality(S5Window(1, 11 * S5Hz + 1)) <= 2

\* the 12 seconds are over and the second alert came 10 seconds after the first
C9_Witness ==
    /\ s5.fed = S5Frames
    /\ s5.alerts = {DEBOUNCE_FRAMES, DEBOUNCE_FRAMES + Cooldown}

\* C10: a check call sets consecutive_frames of each alert_key of its track
\* to 0 when the check's angle is undefined or in range and adds 1 to it
\* otherwise, and leaves the other tracks alone; so consecutive_frames is
\* the number of calls for the track, up to now, in which the check was out
\* of range without interruption.
C10_ConsecutiveFrames ==
    /\ [](\A t \in FormTracks, k \in AlertKeys :
            LET n == states[t][k].consecutive_frames
                r == obs[t][k].recent
            IN  /\ n = 0 <=> ~r[3]
                /\ n = 1 <=> (r[3] /\ ~r[2])
                /\ n = 2 <=> (r[3] /\ r[2] /\ ~r[1])
                /\ n >= 3 <=> (r[3] /\ r[2] /\ r[1]))
    /\ [][ \A t \in FormTracks, k \in AlertKeys :
             states'[t][k].consecutive_frames =
               IF t # chk'.track_id THEN states[t][k].consecutive_frames
               ELSE IF obs'[t][k].recent[3]
                    THEN states[t][k].consecutive_frames + 1
                    ELSE 0
         ]_vars

\* a run of two out-of-range frames was ended by a frame in range or unobservable
C10_Witness ==
    \E t \in FormTracks, k \in AlertKeys :
        /\ chk.track_id = t
        /\ states[t][k].consecutive_frames = 0
        /\ obs[t][k].recent = <<TRUE, TRUE, FALSE>>

(***************************************************************************)
(* ExercisePipeline                                                        *)
(***************************************************************************)

\* what a step that only decodes, classifies or acknowledges leaves alone
Untouched ==
    <<tracks, next_set_id, states, track_exercise, frame_count, ids_vars,
      rows, tx, attempts, rep_counted, form_alerts>>

\* C11: the loop leaves a message behind only acknowledged, whether its
\* processing ended at the decode, at the classification, at the end of
\* _process or in the handler of an exception; an exception raised inside
\* _process never leaves run(): the handler acknowledges the message and
\* the loop goes on with the rest of the batch, or with the next read.
C11_EveryMessageAcked ==
    [][ /\ (batch # << >> /\ batch' # batch)
            => (batch' = Tail(batch) /\ Head(batch) \in acked')
        /\ (batch = << >> /\ batch' # batch) => pc = "read"
        /\ (pc' = "crashed" /\ pc # "crashed") => pc \in {"read", "handler_ack"}
        /\ (pc = "handler_ack" /\ pc' \notin {"handler_ack", "crashed", "cancelled"})
            => /\ Head(batch) \in acked'
               /\ batch' = Tail(batch)
               /\ pc' = IF Len(batch) > 1 THEN "process" ELSE "read"
      ]_vars

\* the insertion of a rep's row failed after the rep was published; the
\* message is acknowledged and the second message of the batch is in hand
C11_Witness ==
    /\ pc = "process"
    /\ batch = <<2>>
    /\ 1 \in acked
    /\ Len(rep_counted) = 1
    /\ rows.rep_events = {}

\* the durable rows of a track and the events published for it
SessionsOf(t) == {x \in rows.gym_sessions : x.primary_track_ids = <<str(t)>>}
TracksOf(t) == {x \in rows.tracks : x.local_track_id = t}
SetsOf(t) == {x \in rows.exercise_sets : \E y \in TracksOf(t) : x.track_id = y.id}
PublishedOf(t) ==
    {rep_counted[i] : i \in {j \in 1..Len(rep_counted) : rep_counted[j].track_id = t}}
    \cup
    {form_alerts[i] : i \in {j \in 1..Len(form_alerts) : form_alerts[j].track_id = t}}

\* C12: of every track there is at most one GymSession, one Track and one
\* ExerciseSet row, however many bootstraps failed before; an event of the
\* track is on a stream only when the three rows are committed, and it
\* carries the cached id, which is the id of the track's ExerciseSet row.
C12_OneTriplePerTrack ==
    \A t \in FormTracks :
        /\ Cardinality(SessionsOf(t)) <= 1
        /\ Cardinality(TracksOf(t)) <= 1
        /\ Cardinality(SetsOf(t)) <= 1
        /\ \A e \in PublishedOf(t) :
              /\ SessionsOf(t) # {} /\ TracksOf(t) # {} /\ SetsOf(t) # {}
              /\ t \in DOMAIN track_set_ids
              /\ e.exercise_set_id = track_set_ids[t]
              /\ \E x \in SetsOf(t) : str(x.id) = e.exercise_set_id

\* both tracks have their rows and alerts of both are on the stream
C12_Witness ==
    /\ \A t \in FormTracks : SetsOf(t) # {} /\ t \in DOMAIN track_set_ids
    /\ \A t \in FormTracks : \E i \in 1..Len(form_alerts) : form_alerts[i].track_id = t
    /\ Cardinality(rows.exercise_sets) = 2

\* the RepEvent row that belongs to a published rep event
RowOf(e) == [exercise_set_id |-> UUID(e.exercise_set_id), rep_number |-> e.rep_number]

\* the last entry of rep_counted comes from a publish that was cancelled
\* while awaited, which never returned to _process
CancelledPublish(i) ==
    /\ i = Len(rep_counted)
    /\ inflight = [op |-> "publish_rep", done |-> TRUE]

\* C13: for every rep event whose publish returned, _persist_rep_event was
\* called with the same exercise_set_id and rep_number; the call follows
\* the publish at once, while the message is in hand and not acknowledged.
C13_PublishThenPersist ==
    /\ [](\A i \in 1..Len(rep_counted) :
             CancelledPublish(i) \/ RowOf(rep_counted[i]) \in attempts)
    /\ [][ (rep_counted' # rep_counted /\ pc' # "cancelled")
             => /\ pc = "publish_rep" /\ pc' = "persist"
                /\ rep_counted' = Append(rep_counted, loc.rep_event)
                /\ attempts' = attempts \cup {RowOf(loc.rep_event)}
                /\ tx'.rep_events = {RowOf(loc.rep_event)}
                /\ batch' = batch /\ Head(batch) \notin acked'
         ]_vars

\* a rep was published and its row committed; the message is about to be
\* acknowledged
C13_Witness ==
    /\ pc = "ack"
    /\ Len(rep_counted) = 1
    /\ RowOf(rep_counted[1]) \in rows.rep_events
    /\ loc.rep_event = rep_counted[1]

\* the classifier's answer makes _process skip the event (the source's
\* words: exercise_name == "unknown" or confidence < 0.5)
SkipVerdict(l) ==
    l.exercise_name = "unknown"
    \/ (l.exercise_name # "none" /\ l.confidence < MIN_CONFIDENCE)

\* C14: when the classifier answers "unknown" or with a confidence below
\* 0.5, the step that classified has changed the classifier history and
\* nothing in Untouched, and goes to the acknowledgement; until the message
\* is left behind, acknowledged, nothing in Untouched changes: no row, no
\* entry of a stream, no cached id, no TrackState and no AlertState.
C14_SkipTouchesNothing ==
    [][ /\ (pc = "process" /\ pc' # "process" /\ SkipVerdict(loc'))
            => (pc' = "ack_skip" /\ UNCHANGED Untouched)
        /\ (SkipVerdict(loc) /\ pc \in {"ack_skip", "handler_ack"})
            => /\ UNCHANGED Untouched
               /\ UNCHANGED histories
               /\ pc' \in {"read", "process"} => Head(batch) \in acked'
      ]_vars

\* a frame is being skipped for a confidence just below 0.5 when a track
\* has its rows, a TrackState and an alert on the stream
C14_Witness ==
    /\ pc = "ack_skip"
    /\ loc.exercise_name = "squat"
    /\ loc.confidence < MIN_CONFIDENCE
    /\ 1 \in DOMAIN tracks
    /\ rows.exercise_sets # {}
    /\ form_alerts # << >>

\* pc inside the lazy bootstrap of _ensure_db_records
Bootstrap == {"flush_session", "flush_track", "flush_set", "commit"}

\* the handler of run() holds an event whose bootstrap failed
BootstrapFailed ==
    /\ pc = "handler_ack"
    /\ loc.track_id \in FormTracks
    /\ loc.track_id \notin DOMAIN track_set_ids

\* what a failed bootstrap must leave alone
Skipping ==
    <<tracks, next_set_id, states, ids_vars, rows, rep_counted, form_alerts,
      frame_count>>

\* C15: a step of the bootstrap that drops the session without a commit
\* goes to the handler of run() and changes no TrackState, no AlertState,
\* no stream, no row and no cached id; the handler changes none of these
\* either and leaves the message behind acknowledged; and a confident
\* event of a track without cached ids opens the bootstrap (again).
C15_BootstrapFailureSkips ==
    [][ /\ (pc \in Bootstrap /\ tx' = NoRows /\ rows' = rows /\ pc' # "cancelled")
            => (pc' = "handler_ack" /\ batch' = batch /\ UNCHANGED Skipping)
        /\ BootstrapFailed
            => /\ UNCHANGED Skipping
               /\ pc' \in {"read", "process"} => Head(batch) \in acked'
        /\ (pc = "process" /\ pc' \notin {"process", "handler_ack", "ack_skip"})
            => IF loc'.track_id \in DOMAIN track_set_ids
               THEN pc' = "update"
               ELSE pc' = "flush_session" /\ tx'.gym_sessions # {}
      ]_vars

\* the bootstrap of track 2 failed after its ExerciseSet was added, while
\* track 1 has its rows; the handler is about to acknowledge the message
C15_Witness ==
    /\ BootstrapFailed
    /\ loc.track_id = 2
    /\ loc.ex_set # 0
    /\ 1 \in DOMAIN track_set_ids
    /\ 2 \notin DOMAIN tracks
    /\ SessionsOf(2) = {}

\* rep_numbers of the events of track t on the stream rep_counted
RepNumbersOf(t) ==
    {rep_counted[i].rep_number :
        i \in {j \in 1..Len(rep_counted) : rep_counted[j].track_id = t}}

\* the handler of run() holds an event whose rep was published but whose
\* RepEvent row is not in the table
PersistFailed ==
    /\ pc = "handler_ack"
    /\ "rep_event" \in DOMAIN loc
    /\ loc.rep_event # NoEvent
    /\ Len(rep_counted) > 0
    /\ rep_counted[Len(rep_counted)] = loc.rep_event
    /\ RowOf(loc.rep_event) \notin rows.rep_events

\* C16: when the commit of a RepEvent row fails, the step goes to the
\* handler of run() with the stream and the TrackState unchanged, the
\* rep_count still the published rep_number; the handler leaves both alone
\* and leaves the message behind acknowledged.  No entry ever leaves the
\* stream, and every rep published later for the track has a greater
\* rep_number, the track's rep_count as it then is.
C16_PersistFailureKeepsRep ==
    [][ /\ (pc = "persist" /\ tx' = NoRows /\ rows' = rows /\ pc' # "cancelled")
            => /\ pc' = "handler_ack"
               /\ batch' = batch
               /\ rep_counted' = rep_counted
               /\ tracks' = tracks
               /\ tracks[loc.track_id].rep_count = loc.rep_event.rep_number
        /\ PersistFailed
            => /\ rep_counted' = rep_counted
               /\ tracks' = tracks
               /\ pc' \in {"read", "process"} => Head(batch) \in acked'
        /\ Len(rep_counted') >= Len(rep_counted)
        /\ SubSeq(rep_counted', 1, Len(rep_counted)) = rep_counted
        /\ (rep_counted' # rep_counted)
            => LET e == rep_counted'[Len(rep_counted')]
               IN  /\ e.rep_number = tracks[e.track_id].rep_count
                   /\ \A n \in RepNumbersOf(e.track_id) : n < e.rep_number
      ]_vars

\* the row of the first rep was not inserted, the pipeline went on, and
\* the second rep is published as number 2 and its row inserted
C16_Witness ==
    /\ Len(rep_counted) = 2
    /\ rep_counted[2].rep_number = 2
    /\ rep_counted[1].rep_number = 1
    /\ RowOf(rep_counted[1]) \notin rows.rep_events
    /\ RowOf(rep_counted[2]) \in rows.rep_events
    /\ inflight = NotCancelled
    /\ pc = "read"

\* C17: no failure of a bus call (the group read, a publish, an
\* acknowledge) ends ExercisePipeline.run: the task never leaves the loop
\* with an exception.  The only steps of the model that set pc to
\* "crashed" are the failing group read of ReadGroup and the failing
\* acknowledge of HandlerAck.
C17_BusFailureKeepsLoop == pc \notin {"crashed", "failed"}

\* the three rows of track t are committed, the ExerciseSet naming the
\* other two
RowsCommitted(t) ==
    \E s \in rows.gym_sessions, k \in rows.tracks, e \in rows.exercise_sets :
        /\ SessionsOf(t) = {s} /\ TracksOf(t) = {k} /\ SetsOf(t) = {e}
        /\ e.session_id = s.id /\ e.track_id = k.id
        /\ t \in DOMAIN track_set_ids
            => /\ track_session_ids[t] = str(s.id)
               /\ track_db_ids[t] = str(k.id)
               /\ track_set_ids[t] = str(e.id)

\* no row of track t is committed and no id of it is cached
NoRowCommitted(t) ==
    /\ SessionsOf(t) = {} /\ TracksOf(t) = {} /\ SetsOf(t) = {}
    /\ t \notin DOMAIN track_set_ids

\* C18: of every track the GymSession, the Track and the ExerciseSet rows
\* are committed together or none of them is, and then no id of the track
\* is cached; the three caches hold the same tracks.  A bootstrap that ends
\* by an exception leaves the tables and the caches as they were; one that
\* commits adds exactly its three rows; one that is cancelled caches
\* nothing and, when the commit was under way, leaves all three rows or
\* none.  A RepEvent row is alone in its
\* transaction, which adds that row or nothing; no other step changes a
\* table, and a transaction is open only inside the two blocks.
C18_BootstrapAtomic ==
    /\ [](/\ \A t \in FormTracks : RowsCommitted(t) \/ NoRowCommitted(t)
          /\ DOMAIN track_session_ids = DOMAIN track_set_ids
          /\ DOMAIN track_db_ids = DOMAIN track_set_ids
          /\ pc \notin Bootstrap \cup {"persist"} => tx = NoRows
          /\ pc = "persist"
              => tx = [NoRows EXCEPT !.rep_events = {RowOf(loc.rep_event)}])
    /\ [][ /\ (pc \in Bootstrap /\ pc' = "handler_ack")
               => rows' = rows /\ ids_vars' = ids_vars /\ tx' = NoRows
           /\ (pc \in Bootstrap /\ pc' = "cancelled")
               => /\ rows' \in {rows, Merge(rows, tx)}
                  /\ rows' # rows => pc = "commit"
                  /\ ids_vars' = ids_vars /\ tx' = NoRows
           /\ (pc \in Bootstrap /\ pc' \in Bootstrap)
               => rows' = rows /\ ids_vars' = ids_vars
           /\ (pc = "commit" /\ pc' = "update")
               => /\ rows' = Merge(rows, tx)
                  /\ Cardinality(tx.gym_sessions) = 1
                  /\ Cardinality(tx.tracks) = 1
                  /\ Cardinality(tx.exercise_sets) = 1
                  /\ tx.rep_events = {}
                  /\ DOMAIN track_set_ids' = DOMAIN track_set_ids \cup {loc.track_id}
           /\ pc = "persist"
               => /\ rows' \in {rows, [rows EXCEPT !.rep_events =
                                         @ \cup {RowOf(loc.rep_event)}]}
                  /\ tx' = NoRows
           /\ rows' # rows => pc \in {"commit", "persist"}
           /\ ids_vars' # ids_vars => pc = "commit" /\ pc' = "update"
         ]_vars

\* the bootstrap of track 2 failed after its ExerciseSet was added: no row
\* and no id of track 2 is kept, while those of track 1, committed before
\* with the row of a rep, are
C18_Witness ==
    /\ pc = "handler_ack"
    /\ loc.track_id = 2
    /\ loc.ex_set # 0
    /\ NoRowCommitted(2)
    /\ RowsCommitted(1)
    /\ 1 \in DOMAIN track_set_ids
    /\ rows.rep_events # {}

\* what the processing of a message reads and writes: the classifier
\* histories, the rep counter, the form analyzer, the caches, the tables
\* and the two output streams
Processing ==
    <<histories, track_exercise, frame_count, tracks, next_set_id, states,
      ids_vars, rows, attempts, rep_counted, form_alerts>>

\* C19: the messages of a read are handled in the order of the stream, one
\* at a time.  The messages still to handle are in increasing stream order,
\* the one in hand is the earliest of them, and every earlier message of
\* the read is acknowledged; a read is made only when none is left.  A
\* step that changes anything in Processing belongs to the message in
\* hand, and the next message is taken up only when that one has been
\* acknowledged.
C19_StreamOrderOneAtATime ==
    /\ [](/\ \A i \in 1..Len(batch) : \A j \in 1..Len(batch) :
                i < j => batch[i] < batch[j]
          /\ batch # << >> => \A m \in 1..(Head(batch) - 1) : m \in acked
          /\ pc = "read" => batch = << >>
          /\ pc \in (Awaits \ {"read"}) \cup {"process", "update", "check"}
              => batch # << >>)
    /\ [][ /\ Processing' # Processing
               => /\ batch # << >> /\ batch' = batch
                  /\ pc \notin {"read", "ack", "ack_skip", "handler_ack"}
           /\ (batch # << >> /\ batch' # batch)
               => /\ pc \in {"ack", "ack_skip", "handler_ack"}
                  /\ Head(batch) \in acked'
                  /\ batch' = Tail(batch)
                  /\ pc' = IF batch' = << >> THEN "read" ELSE "process"
           /\ (pc' = "process" /\ pc # "read")
               => pc \in {"ack", "ack_skip", "handler_ack"} /\ batch' # batch
         ]_vars

\* the first message of a read of two went through all of _process and is
\* acknowledged; the second is in hand
C19_Witness ==
    /\ pc = "process"
    /\ batch = <<2>>
    /\ acked = {1}
    /\ frame_count = 1
    /\ rows.gym_sessions # {}

\* the awaits of a publish and of a database operation
PublishOrDb ==
    {"publish_rep", "publish_alert",
     "flush_session", "flush_track", "flush_set", "commit", "persist"}

\* C20: a pipeline stopped by cancellation was cancelled in its read or
\* in its acknowledge, or the publish or the database operation that was
\* under way has completed; and when the service has stopped the stream
\* client is closed.
C20_CancelCompletesInFlight ==
    /\ pc \in {"cancelled", "stopped"}
        => (inflight.op \in PublishOrDb => inflight.done)
    /\ pc = "stopped" => ~redis_open

\* the number of places of seq that hold v
Count(seq, v) == Cardinality({i \in 1..Len(seq) : seq[i] = v})

\* srt holds the samples of seq in ascending order
SortedOf(seq, srt) ==
    /\ Len(srt) = Len(seq)
    /\ \A i \in 1..(Len(srt) - 1) : srt[i] <= srt[i + 1]
    /\ \A v \in SmoothSamples : Count(srt, v) = Count(seq, v)

\* the last min(5, len) samples, taken place by place
LastFive(values) ==
    LET k == IF Len(values) < 5 THEN Len(values) ELSE 5
    IN  [i \in 1..k |-> values[Len(values) - k + i]]

\* C26: smooth_signal returns 0.0 for an empty sequence; otherwise, with
\* the last min(5, len) samples sorted, the middle one when their number is
\* odd and the mean of the two middle ones when it is even (the result is
\* kept doubled).  The samples before the last five are not looked at.
C26_MedianOfLastFive ==
    fn.op = "smooth_signal"
    => LET recent == LastFive(fn.values)
           k == Len(recent)
       IN  IF k = 0 THEN fn.result2 = 0
           ELSE \E srt \in [1..k -> SmoothSamples] :
                   /\ SortedOf(recent, srt)
                   /\ IF k % 2 = 1
                      THEN fn.result2 = 2 * srt[(k + 1) \div 2]
                      ELSE fn.result2 = srt[k \div 2] + srt[k \div 2 + 1]

\* six samples whose oldest, 0, would move the median if it were counted:
\* the last five are 165 165 95 95 165 with the median 165
C26_Witness ==
    /\ fn.op = "smooth_signal"
    /\ fn.values = <<0, 165, 165, 95, 95, 165>>
    /\ fn.result2 = 2 * 165

\* an index of the call is below 0 or at least the length of the list
IndexOutOfRange ==
    \E i \in 1..3 : fn.idx[i] < 0 \/ fn.idx[i] >= Len(fn.keypoints)

\* one of the three keypoints the indices name is less visible than 0.3
LowVisibility ==
    /\ ~IndexOutOfRange
    /\ \E i \in 1..3 : fn.keypoints[fn.idx[i] + 1] < VIS_THRESHOLD

\* C25: get_joint_angle returns None exactly when an index is out of range
\* (below 0 or at least the length of the list) or one of the three
\* keypoints has a visibility below 0.3, and a degree value otherwise.
C25_UndefinedIff ==
    fn.op = "get_joint_angle"
    => IF IndexOutOfRange \/ LowVisibility
       THEN fn.result.kind = "None"
       ELSE fn.result.kind = "degrees"

\* the call classified a track whose push_up and bicep_curl histories hold
\* at least 15 samples, whose squat history spans less than 20 degrees and
\* whose push_up std-dev is at most 1.5 times the bicep_curl std-dev
ElbowCase ==
    /\ fn.op = "classifier_update"
    /\ Len(fn.history["push_up"]) >= 15
    /\ Len(fn.history["bicep_curl"]) >= 15
    /\ \A i \in 1..Len(fn.history["squat"]) : \A j \in 1..Len(fn.history["squat"]) :
          fn.history["squat"][i] - fn.history["squat"][j] < 20
    /\ ~StdSignificantlyHigher(std(fn.history["push_up"]), std(fn.history["bicep_curl"]))

\* the bicep_curl std-dev is at least 5.0 and above that of every other
\* exercise, push_up aside, that has 15 samples
BicepCurlLargest ==
    /\ ~StdBelowMin(std(fn.history["bicep_curl"]))
    /\ \A x \in {"squat", "lateral_raise"} :
          Len(fn.history[x]) >= 15
          => StdLess(std(fn.history[x]), std(fn.history["bicep_curl"]))

\* C23: in the elbow case the classifier never answers push_up, and it
\* answers bicep_curl when the bicep_curl std-dev is the largest one left
\* and at least 5.0.
C23_PrefersBicepCurl ==
    ElbowCase
    => /\ fn.result.exercise # "push_up"
       /\ BicepCurlLargest => fn.result.exercise = "bicep_curl"

\* 30 samples per history, the knee swinging by 18 degrees and the elbow
\* by more, push_up ahead of bicep_curl in the registry: bicep_curl
C23_Witness ==
    /\ ElbowCase
    /\ BicepCurlLargest
    /\ fn.names = SquatFirst
    /\ Len(fn.history["squat"]) = WINDOW
    /\ fn.history["squat"][1] # fn.history["squat"][2]
    /\ fn.result.exercise = "bicep_curl"

\* C24: update answers ("unknown", 0.0) when no history of the track holds
\* 15 samples or when, after the elbow exercises are told apart, no
\* std-dev reaches 5.0; otherwise it answers an exercise that has 15
\* samples and whose std-dev no other exceeds, with a confidence between
\* 0 and 1 (kept in hundredths).
C24_UnknownOrLargest ==
    fn.op = "classifier_update"
    => LET v == Disambiguated(fn.history)
       IN  IF \/ \A x \in ExerciseNames : Len(fn.history[x]) < 15
              \/ \A x \in DOMAIN v : StdBelowMin(v[x])
           THEN fn.result = [exercise |-> "unknown", confidence |-> 0]
           ELSE /\ fn.result.exercise \in DOMAIN v
                /\ Len(fn.history[fn.result.exercise]) >= 15
                /\ \A x \in DOMAIN v : ~StdLess(v[fn.result.exercise], v[x])
                /\ 0 <= fn.result.confidence /\ fn.result.confidence <= 100

\* the knee moves most and the shoulder moves too: squat, with a
\* confidence strictly between 0.5 and 1
C24_Witness ==
    /\ fn.op = "classifier_update"
    /\ fn.result.exercise = "squat"
    /\ fn.result.confidence > 50
    /\ fn.result.confidence < 100
    /\ "lateral_raise" \in DOMAIN Disambiguated(fn.history)
    /\ ~StdBelowMin(std(fn.history["lateral_raise"]))

\* a sequence without its last element
Front(seq) == SubSeq(seq, 1, Len(seq) - 1)

\* the candidate phase of the update that left this angle_history behind
CandidateOf(angle_history) == Candidate(smooth_signal2(angle_history))

\* C28: an update that changes the phase of a track to P has the candidate
\* P, and so have the two updates with a defined angle before it: their
\* candidates are those of the angle_history before the update and of that
\* history without its last sample.
C28_ThreeConfirmingFrames ==
    [][ \A t \in Tracks :
          ( /\ t \in DOMAIN tracks
            /\ tracks'[t].set_id = tracks[t].set_id
            /\ tracks'[t].phase # tracks[t].phase )
          => /\ Len(tracks[t].angle_history) >= 2
             /\ CandidateOf(tracks'[t].angle_history) = tracks'[t].phase
             /\ CandidateOf(tracks[t].angle_history) = tracks'[t].phase
             /\ CandidateOf(Front(tracks[t].angle_history)) = tracks'[t].phase
      ]_vars

\* C27: no two entries of the stream rep_counted carry the same
\* exercise_set_id and rep_number.
C27_RepKeysUnique ==
    \A i \in 1..Len(rep_counted) : \A j \in 1..Len(rep_counted) :
        ( /\ rep_counted[i].exercise_set_id = rep_counted[j].exercise_set_id
          /\ rep_counted[i].rep_number = rep_counted[j].rep_number )
        => i = j

\* C29: while the events of the track keep coming, each at most a tick
\* after the message before it (less than set_idle_timeout_s), whatever
\* the classifier makes of them, the rep counter keeps the TrackState of
\* the track: its rep_count never falls.
C29_NoRolloverWhileSeen ==
    [][ \A t \in DOMAIN tracks :
          /\ t \in DOMAIN tracks'
          /\ tracks'[t].rep_count >= tracks[t].rep_count
      ]_vars

\* C21: when the pipeline of one camera has left run() by an exception
\* and no signal came, the pipeline of every other camera is not
\* cancelled: it goes on with its own stream.
C21_CamerasIndependent ==
    \A c \in Cameras : \A d \in Cameras \ {c} :
        (workers[c].pc = "raised" /\ main.why = "error")
        => workers[d].pc # "cancelled"

\* C22: ensure_consumer_group on a stream whose group exists returns
\* without an error and leaves the stream and the group as they are, its
\* pending entries and its last delivered id included; on a stream without
\* the group it creates the group at id 0; the only exception it passes to
\* the caller is one that is not the server's BUSYGROUP answer.
C22_EnsureIdempotent ==
    [][ \A c \in Cameras :
          (workers[c].pc = "ensure" /\ workers'[c].pc \in {"read", "raised"})
          => /\ server[c].group => server'[c] = server[c]
             /\ (~server[c].group /\ workers'[c].pc = "read")
                 => server'[c] = [server[c] EXCEPT !.group = TRUE]
             /\ workers'[c].pc = "raised"
                 => ~Contains(workers'[c].exc, "BUSYGROUP")
      ]_vars

\* the service was started a second time: the pipeline of cam-01 has
\* called ensure_consumer_group on the group the first start created and
\* reads on, the group still holding a pending entry and its position
C22_Witness ==
    /\ main.starts = 2
    /\ workers["cam-01"].pc = "read"
    /\ server["cam-01"].group
    /\ server["cam-01"].pending = {1}
    /\ server["cam-01"].last_delivered = 2

\* the restarted pipeline of camera c has nothing new to read
CaughtUp(c) ==
    /\ main.starts >= 2
    /\ main.pc = "gather"
    /\ workers[c].pc = "read"
    /\ server[c].last_delivered = server[c].xlen

\* C30: the messages a pipeline had been given but not acknowledged when
\* it was cancelled by a signal are handled by the pipeline the next start
\* makes: once that one has nothing new to read, none of them is left.
C30_RedeliveredAfterRestart ==
    \A c \in Cameras : CaughtUp(c) => main.owed[c] = {}

\* the TrackState of track t the frame is applied to: the one the counter
\* holds, or a fresh one when there is none or the track was idle too long
Kept(t) ==
    /\ t \in DOMAIN tracks
    /\ t \in DOMAIN tracks'
    /\ tracks'[t].set_id = tracks[t].set_id
    /\ tracks'[t].rep_count = tracks[t].rep_count
    /\ tracks'[t].phase = tracks[t].phase
    /\ tracks'[t].angle_history = tracks[t].angle_history
    /\ tracks'[t].phase_frame_count = tracks[t].phase_frame_count

RolledOver(t) ==
    /\ t \in DOMAIN tracks =>
           clock' - tracks[t].last_seen_at > set_idle_timeout_s * ticks_per_s
    /\ t \in DOMAIN tracks'
    /\ tracks'[t].set_id = next_set_id
    /\ tracks'[t].rep_count = 0
    /\ tracks'[t].phase = "unknown"
    /\ tracks'[t].angle_history = << >>
    /\ tracks'[t].phase_frame_count = 0

\* C33: an update with an undefined angle returns no event and leaves
\* set_id, rep_count, phase, angle history and phase_frame_count of the
\* track as they are (as they are after the idle rollover or the creation
\* of the TrackState, when the call makes one); last_seen_at is a clock
\* value of the call.  An update of one track_id leaves the TrackState of
\* every other track_id unchanged.
C33_UndefinedAngleFrame ==
    [][ \A t \in TwoTracks :
          (ret'.op = "update" /\ ret'.track_id = t)
          => /\ \A u \in DOMAIN tracks \ {t} :
                    u \in DOMAIN tracks' /\ tracks'[u] = tracks[u]
             /\ DOMAIN tracks' = DOMAIN tracks \cup {t}
             /\ ret'.angle = NoAngle
                 => /\ ret'.event = NoEvent
                    /\ Kept(t) \/ RolledOver(t)
                    /\ tracks'[t].last_seen_at \in clock..clock'
      ]_vars

\* an update without an angle has been applied to a track in the middle of
\* a phase lock while the other track has a confirmed phase
C33_Witness ==
    /\ ret.op = "update"
    /\ ret.angle = NoAngle
    /\ DOMAIN tracks = TwoTracks
    /\ tracks[ret.track_id].phase_frame_count = 2
    /\ tracks[ret.track_id].last_seen_at = clock
    /\ \E u \in TwoTracks \ {ret.track_id} : tracks[u].phase = "down"

\* the angle of the check of alert_key k was defined, and out of its range,
\* in the call that has just returned for track t: any other angle leaves
\* the check's count of consecutive frames at zero
ObservedOutOfRange(t, k) == states'[t][k].consecutive_frames > 0

\* C36: every alert a check call returns holds in joint_angles the angle
\* of every form check whose joint angle is defined in that call, whether
\* the check stands before or after the one that fired in the exercise's
\* list of checks.
C36_AlertCarriesAllAngles ==
    [][ chk'.op = "check"
        => \A i \in 1..Len(chk'.alerts) : \A k \in AlertKeys :
              ObservedOutOfRange(chk'.track_id, k)
              => CheckOf(k).joint \in DOMAIN chk'.alerts[i].joint_angles
      ]_vars

\* the entries of a stream
EntriesOf(stream) == {stream[i] : i \in 1..Len(stream)}

\* for the message in hand the bootstrap, the publishes and the persistence
\* have completed: the track's ExerciseSet is committed and cached, no
\* database session is open, the rep event (when the frame counted one) is
\* in rep_counted and its row committed, and every alert of the frame is
\* in form_alerts
WorkCompleted ==
    /\ tx = NoRows
    /\ loc.track_id \in DOMAIN track_set_ids
    /\ \E s \in rows.exercise_sets : str(s.id) = track_set_ids[loc.track_id]
    /\ loc.rep_event # NoEvent
        => /\ loc.rep_event \in EntriesOf(rep_counted)
           /\ [exercise_set_id |-> UUID(loc.set_id),
               rep_number |-> loc.rep_event.rep_number] \in rows.rep_events
    /\ loc.alerts = << >>
    /\ \A i \in 1..Len(chk.alerts) :
           Rewrap(chk.alerts[i], loc.set_id) \in EntriesOf(form_alerts)

\* C32: the acknowledgement of a fully processed message (pipeline.py 202)
\* is issued only when the bootstrap, every publish and the persistence of
\* the message have completed; the step publishes and persists nothing,
\* and it acknowledges this message only, which was not acknowledged
\* before.
C32_AckLast ==
    [][ (pc = "ack" /\ acked' # acked)
        => /\ WorkCompleted
           /\ Head(batch) \notin acked
           /\ acked' = acked \cup {Head(batch)}
           /\ UNCHANGED <<rep_counted, form_alerts, rows>>
      ]_vars

\* both messages of a batch are acknowledged; the second one had its rep
\* event published and persisted, and an earlier one its alert published
C32_Witness ==
    /\ pc = "read"
    /\ acked = {1, 2}
    /\ ret.event # NoEvent
    /\ rows.rep_events # {}
    /\ Len(rep_counted) >= 1
    /\ Len(form_alerts) >= 1

\* the zone a single sample lies in
SampleIn(zone, angle) == IF zone = "up" THEN InUp(2 * angle) ELSE InDown(2 * angle)
Opposite(zone) == IF zone = "up" THEN "down" ELSE "up"

\* all of the samples lie in the zone but at most one, which lies in the
\* opposite zone
OneSpurious(samples, zone) ==
    /\ \A i \in 1..Len(samples) :
           SampleIn(zone, samples[i]) \/ SampleIn(Opposite(zone), samples[i])
    /\ Cardinality({i \in 1..Len(samples) : ~SampleIn(zone, samples[i])}) <= 1

\* C34: a frame of a track whose confirmed phase is UP, after which four
\* of the last five samples lie in the UP zone and at most one in the DOWN
\* zone, causes no phase transition and no rep event; so a single DOWN
\* sample after four UP samples changes nothing, neither when it arrives
\* nor with any of the UP samples that follow it.  The same holds for a
\* confirmed DOWN phase and a single UP sample.
C34_SpuriousSampleTolerated ==
    [][ \A t \in Tracks : \A zone \in {"up", "down"} :
          ( /\ ret'.op = "update"
            /\ ret'.track_id = t
            /\ t \in DOMAIN tracks
            /\ tracks'[t].set_id = tracks[t].set_id
            /\ tracks[t].phase = zone
            /\ Len(tracks'[t].angle_history) >= SmoothWindow
            /\ OneSpurious(LastN(tracks'[t].angle_history, SmoothWindow), zone) )
          => /\ tracks'[t].phase = zone
             /\ tracks'[t].rep_count = tracks[t].rep_count
             /\ ret'.event = NoEvent
      ]_vars

\* track 1, phase UP, has had four UP samples, one DOWN sample and one more
\* UP sample, and its phase is UP still
C34_Witness ==
    /\ ret.op = "update"
    /\ ret.event = NoEvent
    /\ 1 \in DOMAIN tracks
    /\ tracks[1].phase = "up"
    /\ tracks[1].rep_count = 1
    /\ Len(tracks[1].angle_history) = ANGLE_HISTORY
    /\ \A i \in 2..5 : SampleIn("up", tracks[1].angle_history[i])
    /\ SampleIn("down", tracks[1].angle_history[6])
    /\ SampleIn("up", tracks[1].angle_history[7])

\* the candidate phase the specification gives for a smoothed angle
\* (doubled) and the thresholds of the definition d
SpecifiedCandidate(d, smoothed2) ==
    LET at_up == IF d.up_angle > d.down_angle
                 THEN smoothed2 >= 2 * d.up_angle ELSE smoothed2 <= 2 * d.up_angle
        at_down == IF d.up_angle > d.down_angle
                   THEN smoothed2 <= 2 * d.down_angle
                   ELSE smoothed2 >= 2 * d.down_angle
    IN  IF at_up THEN "up" ELSE IF at_down THEN "down" ELSE "none"

\* what an update of track t with a defined angle shows of its candidate:
\* a new phase is the candidate; a raised frame count means a candidate
\* that is a phase other than the track's; a frame count of zero with the
\* phase kept means no candidate or the track's phase
CandidateShown(t, candidate) ==
    /\ tracks'[t].phase # PhaseBefore(t) => tracks'[t].phase = candidate
    /\ tracks'[t].phase_frame_count > 0
        => candidate \notin {"none", PhaseBefore(t)}
    /\ (tracks'[t].phase_frame_count = 0 /\ tracks'[t].phase = PhaseBefore(t))
        => candidate \in {"none", PhaseBefore(t)}

\* C35: with up_angle not above down_angle the candidate of a frame is UP
\* when the smoothed angle is at or below up_angle and DOWN when it is at
\* or above down_angle; with up_angle above down_angle the comparisons are
\* mirrored; where both hold the candidate is UP.  The rep counter acts
\* on this candidate, and it returns an event of its exercise exactly when
\* the frame takes the phase from DOWN to UP.
C35_CandidateByThresholdOrder ==
    [][ \A d \in Definitions : \A t \in Tracks :
          ( /\ ret'.op = "update"
            /\ ret'.track_id = t
            /\ ret'.angle # NoAngle
            /\ tracks'[t].exercise_type = d.name )
          => /\ CandidateShown(t, SpecifiedCandidate(d,
                                 smooth_signal2(tracks'[t].angle_history)))
             /\ ret'.event # NoEvent
                 <=> (PhaseBefore(t) = "down" /\ tracks'[t].phase = "up")
             /\ ret'.event # NoEvent => ret'.event.exercise_type = d.name
      ]_vars

\* a bicep curl has been counted: the smoothed angle was confirmed at or
\* above down_angle and is now confirmed at or below up_angle
C35_Witness ==
    /\ ret.op = "update"
    /\ ret.event # NoEvent
    /\ ret.event.exercise_type = "bicep_curl"
    /\ ret.event.rep_number = 1
    /\ tracks[1].phase = "up"
    /\ smooth_signal2(tracks[1].angle_history) <= 2 * 50

\* the smoothed angle equals both thresholds and the phase has become UP
C35_WitnessBoth ==
    /\ ret.op = "update"
    /\ tracks[1].exercise_type = "lateral_raise"
    /\ smooth_signal2(tracks[1].angle_history) = 2 * 90
    /\ tracks[1].phase = "up"
    /\ tracks[1].rep_count = 1

\* C37: after any sequence of updates the push_up history and the
\* bicep_curl history of the track are the same sequence, so neither
\* std-dev is below the other and the push_up std-dev is not above 1.5
\* times the bicep_curl std-dev; and while the samples of the squat history
\* lie less than 20 degrees apart the classifier does not return push_up.
C37_ElbowHistoriesIdentical ==
    fn.op = "classifier_run"
    => /\ fn.history["push_up"] = fn.history["bicep_curl"]
       /\ LET push_up == std(fn.history["push_up"])
              bicep_curl == std(fn.history["bicep_curl"])
          IN  /\ ~StdLess(push_up, bicep_curl)
              /\ ~StdLess(bicep_curl, push_up)
              /\ ~StdSignificantlyHigher(push_up, bicep_curl)
       /\ LowerBodyStill(fn.history["squat"]) => fn.result.exercise # "push_up"

\* the window has slid, the legs are still and the elbow swings: with
\* push_up before bicep_curl in the registry the result is bicep_curl
C37_Witness ==
    /\ fn.op = "classifier_run"
    /\ fn.names = SquatFirst
    /\ fn.frames > WINDOW
    /\ Len(fn.history["push_up"]) = WINDOW
    /\ ~StdBelowMin(std(fn.history["push_up"]))
    /\ Len(fn.history["squat"]) >= WINDOW \div 2
    /\ LowerBodyStill(fn.history["squat"])
    /\ fn.result.exercise = "bicep_curl"

\* classifier.py 66-70 and exercise_registry.py 58-61: the primary_joint the
\* registry gives for an exercise; _EXERCISE_JOINTS repeats it for the
\* four exercises, the further exercise counts on the elbow
RegistryPrimaryJoint(name) ==
    IF name \in ExerciseNames THEN EXERCISE_JOINTS[name] ELSE "5-7-9"

\* C38: whatever the registry holds, an update raises no error, appends to
\* the FIFO of every exercise of the registry the angle of the exercise's
\* primary_joint when that angle is defined and leaves the FIFO alone when
\* it is not, and keeps every FIFO at no more than 30 samples.
C38_AnyRegistry ==
    fn.op = "classifier_run"
    => /\ fn.exc = "none"
       /\ \A name \in NamesOf(fn.names) :
             /\ Len(fn.history[name]) <= WINDOW
             /\ fn.history[name] =
                    IF fn.angles[RegistryPrimaryJoint(name)] = NoAngle
                    THEN fn.before[name]
                    ELSE AppendWindow(fn.before[name],
                                      fn.angles[RegistryPrimaryJoint(name)])

\* 2^n
RECURSIVE TwoToThe(_)
TwoToThe(n) == IF n = 0 THEN 1 ELSE 2 * TwoToThe(n - 1)

\* the backoff after n failures in a row: 1, 2, 4, 8, 16, 30, 30, ...
BackoffAfter(n) ==
    IF BACKOFF_BASE * TwoToThe(n) < BACKOFF_MAX
    THEN BACKOFF_BASE * TwoToThe(n) ELSE BACKOFF_MAX

\* what run() has slept for and will sleep for follows the failures in a row
BackoffFollowsFailures ==
    /\ reader.backoff \in BACKOFF_BASE..BACKOFF_MAX
    /\ reader.pc = "sleeping" =>
          /\ reader.failures >= 1
          /\ reader.slept = BackoffAfter(reader.failures - 1)
          /\ reader.backoff = reader.slept
    /\ reader.pc \in {"loop", "streaming"} =>
          reader.backoff = BackoffAfter(reader.failures)

\* C40: CameraReader.run reconnects on failure.  After the n-th failure in a
\* row of _stream_loop with stop_event not set, run sleeps for the backoff
\* of 1 s doubled n - 1 times and capped at 30 s, and then calls _stream_loop
\* again unless the stop was requested meanwhile, for any number of failures
\* in a row; run has returned only if stop_event is set, and once stop_event
\* is set run returns.
C40_ReconnectsUntilStopped ==
    /\ [](BackoffFollowsFailures /\ (reader.pc = "returned" => reader.stop))
    /\ (reader.pc = "sleeping" /\ reader.calls < MaxCalls)
          ~> (reader.pc = "streaming" \/ reader.stop)
    /\ reader.stop ~> (reader.pc = "returned")

\* run slept for the longest backoff and has returned after the stop
C40_Witness ==
    /\ reader.pc = "returned"
    /\ reader.slept = BACKOFF_MAX
    /\ reader.failures >= 6

\* C39: FormAlertHandler is rate-limited.  Whenever generate_guidance is
\* called for a track for which it was called before, at least
\* rate_limit_seconds have passed since that earlier call, whether or not
\* the earlier call returned a text; and every consumed alert message has
\* been acknowledged.
C39_OneCallPerRateLimit ==
    [][LET t == handler'.llm_called
       IN  /\ handler'.acked = handler'.consumed
           /\ (handler'.consumed # handler.consumed /\ t # 0
                  /\ t \in DOMAIN handler.last_call)
                 => handler'.now - handler.last_call[t] >= rate_limit_seconds]_vars

\* the rep events of track t on the rep_counted stream, by position
RepPositions(t) ==
    {i \in 1..Len(store.rep_counted) : store.rep_counted[i].track_id = t}

\* C31: with two pipeline processes reading one camera stream in one group,
\* each message given to exactly one of them, the database holds at most
\* one GymSession, one Track and one ExerciseSet of a track, and the rep
\* events published for the track carry one exercise_set_id and strictly
\* increasing rep numbers.
C31_OneTripleAcrossProcesses ==
    \A t \in Tracks :
        /\ Cardinality({x \in store.rows.gym_sessions :
                          x.primary_track_ids = <<str(t)>>}) <= 1
        /\ Cardinality({x \in store.rows.tracks : x.local_track_id = t}) <= 1
        /\ Cardinality({x \in store.rows.exercise_sets :
                          \E y \in store.rows.tracks :
                             y.local_track_id = t /\ x.track_id = y.id}) <= 1
        /\ \A i, j \in RepPositions(t) :
              i < j =>
                 /\ store.rep_counted[i].exercise_set_id
                       = store.rep_counted[j].exercise_set_id
                 /\ store.rep_counted[i].rep_number
                       < store.rep_counted[j].rep_number

=============================================================================
